---- MODULE Spec2Model ----
(***************************************************************************)
(* A model of the fraud monitor's alert pipeline: the sliding-window rate  *)
(* limiter and delivery of AlertManager.send_alert, run by concurrent      *)
(* event-handler coroutines of the asyncio event loop (Spec); the fraud    *)
(* and brand detection and the alert decision of analyze_and_alert         *)
(* (SpecAnalyze); the advanced score calculator alone (SpecScore).         *)
(*                                                                         *)
(* Time is counted in whole minutes (the unit of rate_limit_window).       *)
(* Scores are exact: the integer n stands for the score n / One.           *)
(***************************************************************************)
EXTENDS Integers, Sequences, FiniteSets, TLC

\* ------------------------------------------------------------------ bounds
\* The clock runs from 0 to MaxTime minutes.
MaxTime == 3
\* At most MaxCalls calls of send_alert are started.
MaxCalls == 3
\* calculate_advanced_score is given lists of up to MaxKw matched keywords,
MaxKw == 4
\* and up to MaxSignals urgency, financial and contact matches each.
MaxSignals == 3
\* The analyzed message texts have up to MaxWords words.
MaxWords == 2
\* The imported JSON files have up to MaxRecords records.
MaxRecords == 2
\* At most MaxOps calls are made on the keyword store.
MaxOps == 3
\* The candidate brand matches are at positions 0..MaxPosition of the text, and
\* up to MaxMatches of them are deduplicated.
MaxPosition == 4
MaxMatches == 3
\* clean_text is given texts of up to MaxChars characters.
MaxChars == 4

\* The handler tasks the event loop runs concurrently (one per NewMessage event).
Procs == {"h1", "h2"}

\* -------------------------------------------------------- AlertManager state
VARIABLES
    now,                    \* datetime.now(), in minutes
    recent_alerts,          \* self.recent_alerts: the timestamps of the counted alerts
    alerts_sent,            \* self.alerts_sent
    alerts_suppressed,      \* self.alerts_suppressed
    max_alerts_per_window,  \* self.max_alerts_per_window
    rate_limit_window,      \* self.rate_limit_window, in minutes
    min_alert_score,        \* self.min_alert_score
    deployment,             \* bot_available, enable_desktop_notifications, enable_sound_alerts
    pc,                     \* where each handler task stands
    outcome,                \* how each task's last send_alert call ended
    calls,                  \* history: the number of send_alert calls each task started
    deliveries,             \* history: what each transport was handed
    log,                    \* history: the times the chat deliveries were made
    reconfigured,           \* history: update_configuration ran after the first call
    analysis,               \* the locals and the result of the last analyze_and_alert call
    calc,                   \* the arguments and the result of calculate_advanced_score
    detection,              \* the argument and the outcome of a detect_fraud call
    keywords,               \* KeywordManager._keywords, in insertion order
    exported,               \* the JSON file export_to_json wrote
    target,                 \* the _keywords of a second KeywordManager
    last,                   \* the last KeywordManager call, its arguments and what it returned
    dedup,                  \* the argument and the result of a _deduplicate_matches call
    cleaning                \* the argument and the result of a clean_text call

\* The variables of the keyword store and of detect_fraud.
storeVars == <<detection, keywords, exported, target, last>>

\* The variables of the calls of the brand detector and of the normalizer.
pureVars == <<dedup, cleaning>>

vars == <<now, recent_alerts, alerts_sent, alerts_suppressed, max_alerts_per_window,
          rate_limit_window, min_alert_score, deployment, pc, outcome, calls, deliveries,
          log, reconfigured, analysis, calc, storeVars, pureVars>>

\* The defaults set by AlertManager.__init__.
DefaultMaxAlerts == 10
DefaultWindowMinutes == 5

Transports == {"bot", "client", "desktop", "sound"}

\* The constructor arguments that decide which transports are in use.
Deployments ==
    { [bot_available |-> FALSE, enable_desktop_notifications |-> TRUE,  enable_sound_alerts |-> TRUE],
      [bot_available |-> TRUE,  enable_desktop_notifications |-> FALSE, enable_sound_alerts |-> TRUE],
      [bot_available |-> TRUE,  enable_desktop_notifications |-> TRUE,  enable_sound_alerts |-> FALSE] }

\* The keyword arguments update_configuration is called with: any subset of the
\* rate-limit options, each with a value.
RateLimitOptions == {"max_alerts_per_window", "rate_limit_minutes"}
ArgValues == {0, 2}
Kwargs == UNION { [names -> ArgValues] : names \in SUBSET RateLimitOptions }

Max2(a, b) == IF a >= b THEN a ELSE b
Min2(a, b) == IF a <= b THEN a ELSE b

\* ------------------------------------------------------------ score arithmetic
\* Scores are exact fractions: the integer n stands for n / One. One is a
\* multiple of every denominator the calculators produce for lists of up to
\* MaxKw keywords with scores in tenths (the weights 0.3 / (i + 1), the
\* multiplier's steps of 0.05, the factors 0.7, 0.5, 0.6, 0.4 and 0.8 of the
\* risk scores). The contextual multiplier is counted in twentieths.
RECURSIVE Gcd(_, _)
Gcd(a, b) == IF b = 0 THEN a ELSE Gcd(b, a % b)

RECURSIVE LcmUpTo(_)
LcmUpTo(n) == IF n <= 1 THEN 1 ELSE (LcmUpTo(n - 1) * n) \div Gcd(LcmUpTo(n - 1), n)

One == 20000 * LcmUpTo(MaxKw)

\* k tenths, k hundredths.
Tenths(k) == k * (One \div 10)

\* The min_alert_score set by AlertManager.__init__: 0.3.
DefaultMinAlertScore == Tenths(3)
Hundredths(k) == k * (One \div 100)

\* sorted(scores, reverse=True)
RECURSIVE InsertDesc(_, _)
InsertDesc(x, sorted) ==
    IF sorted = <<>> THEN <<x>>
    ELSE IF x >= Head(sorted) THEN <<x>> \o sorted
    ELSE <<Head(sorted)>> \o InsertDesc(x, Tail(sorted))

\* The scores left in the order of detection.
SortNone(scores) == scores

RECURSIVE SortDesc(_)
SortDesc(scores) ==
    IF scores = <<>> THEN <<>> ELSE InsertDesc(Head(scores), SortDesc(Tail(scores)))

\* The loop of calculate_base_score: scores[i] * (1 / (i + 1)) * 0.3 for i >= 1
\* (scores[i] is sorted[i + 1] here, sequences being indexed from 1).
RECURSIVE AdditionalScores(_, _)
AdditionalScores(sorted, i) ==
    IF i + 1 > Len(sorted) THEN 0
    ELSE (sorted[i + 1] * 3) \div (10 * (i + 1)) + AdditionalScores(sorted, i + 1)

\* AdvancedFraudScoreCalculator.calculate_base_score
CalculateBaseScore(detected_keywords) ==
    IF detected_keywords = <<>> THEN 0
    ELSE LET scores == SortDesc([i \in DOMAIN detected_keywords |-> detected_keywords[i].score])
         IN IF Len(scores) = 1 THEN scores[1]
            ELSE Min2(scores[1] + AdditionalScores(scores, 1), One)

\* calculate_contextual_multiplier without the caps of the three boosts.
CalculateContextualMultiplierUncapped(factors) ==
    Min2(20 + factors.urgency_indicators * 3 + factors.financial_terms * 2
            + factors.contact_requests * 2
            + (IF factors.message_length > 0
               THEN IF factors.message_length < 20 THEN 2
                    ELSE IF factors.message_length > 500 THEN 1 ELSE 0
               ELSE 0)
            + (IF factors.has_media THEN 2 ELSE 0),
         40)

\* AdvancedFraudScoreCalculator.calculate_contextual_multiplier
\* in twentieths: 0.15 is 3, 0.10 is 2, 0.05 is 1, the caps 0.3, 0.25, 0.2 are
\* 6, 5, 4, and 1.0 and 2.0 are 20 and 40.
CalculateContextualMultiplier(factors) ==
    LET urgency_boost   == Min2(factors.urgency_indicators * 3, 6)
        financial_boost == Min2(factors.financial_terms * 2, 5)
        contact_boost   == Min2(factors.contact_requests * 2, 4)
        length_boost    == IF factors.message_length > 0
                           THEN IF factors.message_length < 20 THEN 2
                                ELSE IF factors.message_length > 500 THEN 1
                                ELSE 0
                           ELSE 0
        media_boost     == IF factors.has_media THEN 2 ELSE 0
    IN Min2(20 + urgency_boost + financial_boost + contact_boost + length_boost + media_boost,
            40)

\* AdvancedFraudScoreCalculator.calculate_category_diversity_bonus
CalculateCategoryDiversityBonus(detected_keywords) ==
    IF detected_keywords = <<>> THEN 0
    ELSE LET categories == { detected_keywords[i].category : i \in DOMAIN detected_keywords }
         IN IF Cardinality(categories) >= 4 THEN Hundredths(20)
            ELSE IF Cardinality(categories) = 3 THEN Hundredths(15)
            ELSE IF Cardinality(categories) = 2 THEN Hundredths(8)
            ELSE 0

\* final_score = min(contextual_score + category_bonus, 1.0), without the cap.
FinalScoreUncapped(contextual_score, category_bonus) == contextual_score + category_bonus

\* final_score = min(contextual_score + category_bonus, 1.0)
FinalScore(contextual_score, category_bonus) == Min2(contextual_score + category_bonus, One)

\* calculate_advanced_score with the contextual boosts added to the base score
\* in place of multiplying it.
CalculateAdvancedScoreAdditive(detected_keywords, factors) ==
    LET base_score == CalculateBaseScore(detected_keywords)
        contextual_multiplier == CalculateContextualMultiplier(factors)
        category_bonus == CalculateCategoryDiversityBonus(detected_keywords)
        contextual_score == base_score + (contextual_multiplier - 20) * (One \div 20)
    IN [base_score |-> base_score,
        contextual_multiplier |-> contextual_multiplier,
        category_bonus |-> category_bonus,
        contextual_score |-> contextual_score,
        final_score |-> FinalScore(contextual_score, category_bonus)]

\* AdvancedFraudScoreCalculator.calculate_advanced_score
CalculateAdvancedScore(detected_keywords, factors) ==
    LET base_score == CalculateBaseScore(detected_keywords)
        contextual_multiplier == CalculateContextualMultiplier(factors)
        category_bonus == CalculateCategoryDiversityBonus(detected_keywords)
        contextual_score == (base_score * contextual_multiplier) \div 20
    IN [base_score |-> base_score,
        contextual_multiplier |-> contextual_multiplier,
        category_bonus |-> category_bonus,
        contextual_score |-> contextual_score,
        final_score |-> FinalScore(contextual_score, category_bonus)]

NCalls == calls["h1"] + calls["h2"]

\* --------------------------------------------------------------- rate limiter
\* _should_send_alert, the pruning: the timestamps newer than the cutoff are kept.
PruneRecentKeepsCutoff(alerts, t, window) ==
    SelectSeq(alerts, LAMBDA alert_time : alert_time >= t - window)

PruneRecent(alerts, t, window) ==
    SelectSeq(alerts, LAMBDA alert_time : alert_time > t - window)

\* _should_send_alert, the check on the pruned list.
UnderLimitInclusive(alerts, limit) == Len(alerts) <= limit

UnderLimit(alerts, limit) == Len(alerts) < limit

\* The increments of alerts_sent made by one successful send_alert:
\* _update_rate_limit adds one and the end of send_alert adds one more.
SentIncrement == 1 + 1

\* What the local notifications add once the chat delivery is made.
Notified(d) ==
    [d EXCEPT !["desktop"] = @ + (IF deployment.enable_desktop_notifications THEN 1 ELSE 0),
              !["sound"]   = @ + (IF deployment.enable_sound_alerts THEN 1 ELSE 0)]

\* send_alert after a chat delivery over `via`: _update_rate_limit, the local
\* notifications, the second increment, return True.
Delivered(p, via, alerts) ==
    /\ recent_alerts' = Append(alerts, now)
    /\ alerts_sent' = alerts_sent + SentIncrement
    /\ deliveries' = Notified([deliveries EXCEPT ![via] = @ + 1])
    /\ log' = Append(log, now)
    /\ outcome' = [outcome EXCEPT ![p] = "sent"]
    /\ pc' = [pc EXCEPT ![p] = "idle"]

\* send_alert that goes on to telegram_client.send_message whatever the bot
\* transport returned.
SendAlertEntryBothTransports(p) ==
    /\ calls' = [calls EXCEPT ![p] = @ + 1]
    /\ LET pruned == PruneRecent(recent_alerts, now, rate_limit_window) IN
       IF ~UnderLimit(pruned, max_alerts_per_window)
       THEN /\ recent_alerts' = pruned
            /\ alerts_suppressed' = alerts_suppressed + 1
            /\ outcome' = [outcome EXCEPT ![p] = "suppressed"]
            /\ pc' = [pc EXCEPT ![p] = "idle"]
            /\ UNCHANGED <<alerts_sent, deliveries, log>>
       ELSE /\ UNCHANGED alerts_suppressed
            /\ \E bot_sent \in IF deployment.bot_available THEN BOOLEAN ELSE {FALSE} :
                 /\ recent_alerts' = pruned
                 /\ pc' = [pc EXCEPT ![p] = "send_message"]
                 /\ outcome' = [outcome EXCEPT ![p] = "none"]
                 /\ deliveries' = IF bot_sent THEN [deliveries EXCEPT !["bot"] = @ + 1]
                                   ELSE deliveries
                 /\ UNCHANGED <<alerts_sent, log>>

\* send_alert from its entry to its first suspension: the rate-limit check, then
\* the bot transport (a blocking requests.post, no suspension), and either the
\* return or the suspension at `await telegram_client.send_message`.
SendAlertEntry(p) ==
    /\ calls' = [calls EXCEPT ![p] = @ + 1]
    /\ LET pruned == PruneRecent(recent_alerts, now, rate_limit_window) IN
       IF ~UnderLimit(pruned, max_alerts_per_window)
       THEN /\ recent_alerts' = pruned
            /\ alerts_suppressed' = alerts_suppressed + 1
            /\ outcome' = [outcome EXCEPT ![p] = "suppressed"]
            /\ pc' = [pc EXCEPT ![p] = "idle"]
            /\ UNCHANGED <<alerts_sent, deliveries, log>>
       ELSE /\ UNCHANGED alerts_suppressed
            /\ \E bot_sent \in IF deployment.bot_available THEN BOOLEAN ELSE {FALSE} :
                 IF bot_sent
                 THEN Delivered(p, "bot", pruned)
                 ELSE /\ recent_alerts' = pruned
                      /\ pc' = [pc EXCEPT ![p] = "send_message"]
                      /\ outcome' = [outcome EXCEPT ![p] = "none"]
                      /\ UNCHANGED <<alerts_sent, deliveries, log>>

\* A task calls send_alert.
SendAlert(p) ==
    /\ pc[p] = "idle"
    /\ NCalls < MaxCalls
    /\ SendAlertEntry(p)
    /\ UNCHANGED <<now, max_alerts_per_window, rate_limit_window, deployment,
                   reconfigured, analysis, calc, storeVars,
                   min_alert_score, pureVars>>

\* analyze_and_alert that returns the alert whatever send_alert returned.
AfterSendAlertAlways(success) == "Alert"

\* analyze_and_alert once send_alert has returned: `if success: return alert`,
\* otherwise the `return None` that ends the try block.
AfterSendAlert(success) == IF success THEN "Alert" ELSE "None"

\* The analyze_and_alert call that awaits send_alert, if there is one, resumes
\* and returns.
Resumed(a, returned) ==
    IF a.state = "analyzed" /\ a.returned = "pending"
    THEN [a EXCEPT !.returned = returned]
    ELSE a

\* The awaited telegram_client.send_message returns: the rest of send_alert runs
\* and returns True to its caller.
SendMessageReturn(p) ==
    /\ pc[p] = "send_message"
    /\ Delivered(p, "client", recent_alerts)
    /\ analysis' = Resumed(analysis, AfterSendAlert(TRUE))
    /\ UNCHANGED <<now, alerts_suppressed, max_alerts_per_window, rate_limit_window,
                   deployment, calls, reconfigured, calc, storeVars,
                   min_alert_score, pureVars>>

\* The awaited telegram_client.send_message raises: the except branch returns False.
SendMessageRaise(p) ==
    /\ pc[p] = "send_message"
    /\ pc' = [pc EXCEPT ![p] = "idle"]
    /\ outcome' = [outcome EXCEPT ![p] = "failed"]
    /\ analysis' = Resumed(analysis, AfterSendAlert(FALSE))
    /\ UNCHANGED <<now, recent_alerts, alerts_sent, alerts_suppressed,
                   max_alerts_per_window, rate_limit_window, deployment, calls,
                   deliveries, log, reconfigured, calc, storeVars,
                   min_alert_score, pureVars>>

\* update_configuration that stores the values as given.
UpdateConfigurationUnvalidated(kwargs) ==
    /\ min_alert_score' =
         IF "min_alert_score" \in DOMAIN kwargs THEN kwargs["min_alert_score"]
         ELSE min_alert_score
    /\ max_alerts_per_window' =
         IF "max_alerts_per_window" \in DOMAIN kwargs THEN kwargs["max_alerts_per_window"]
         ELSE max_alerts_per_window
    /\ rate_limit_window' =
         IF "rate_limit_minutes" \in DOMAIN kwargs THEN kwargs["rate_limit_minutes"]
         ELSE rate_limit_window
    /\ reconfigured' = (reconfigured \/ NCalls > 0)
    /\ UNCHANGED <<now, recent_alerts, alerts_sent, alerts_suppressed, deployment, pc,
                   outcome, calls, deliveries, log, analysis, calc, storeVars, pureVars>>

\* update_configuration(**kwargs)
UpdateConfiguration(kwargs) ==
    /\ min_alert_score' =
         IF "min_alert_score" \in DOMAIN kwargs
         THEN Max2(0, Min2(One, kwargs["min_alert_score"]))
         ELSE min_alert_score
    /\ max_alerts_per_window' =
         IF "max_alerts_per_window" \in DOMAIN kwargs
         THEN Max2(1, kwargs["max_alerts_per_window"])
         ELSE max_alerts_per_window
    /\ rate_limit_window' =
         IF "rate_limit_minutes" \in DOMAIN kwargs
         THEN Max2(1, kwargs["rate_limit_minutes"])
         ELSE rate_limit_window
    /\ reconfigured' = (reconfigured \/ NCalls > 0)
    /\ UNCHANGED <<now, recent_alerts, alerts_sent, alerts_suppressed, deployment, pc,
                   outcome, calls, deliveries, log, analysis, calc, storeVars, pureVars>>

\* A minute passes.
Tick ==
    /\ now < MaxTime
    /\ now' = now + 1
    /\ UNCHANGED <<recent_alerts, alerts_sent, alerts_suppressed, max_alerts_per_window,
                   rate_limit_window, deployment, pc, outcome, calls, deliveries, log,
                   reconfigured, analysis, calc, storeVars,
                   min_alert_score, pureVars>>

\* No analyze_and_alert call was made yet; no score was calculated yet.
NoAnalysis == [state |-> "none"]
NoCalc == [state |-> "none"]

\* The default keywords that the sampled texts can match, in the order
\* _load_default_keywords stores them.
DefaultKeywords ==
    << [keyword |-> "scam", category |-> "scam", score |-> Tenths(9),
        description |-> "Direct scam reference"],
       [keyword |-> "guaranteed profit", category |-> "investment", score |-> Tenths(9),
        description |-> "Unrealistic profit claims"],
       [keyword |-> "send bitcoin", category |-> "cryptocurrency", score |-> Tenths(7),
        description |-> "Bitcoin solicitation"],
       [keyword |-> "lonely", category |-> "romance", score |-> Tenths(4),
        description |-> "Romance scam indicator"] >>

\* No detect_fraud call, no exported file, no second manager, no store call yet.
NoDetection == [state |-> "none"]
NoFile == [exists |-> FALSE, keywords |-> <<>>]
NoTarget == [constructed |-> FALSE, file |-> NoFile, keywords |-> <<>>]
NoCall == [op |-> "none", n |-> 0]

\* keyword.strip().lower() for the sampled keyword arguments.
Normalize(keyword) ==
    IF keyword = " Scam " THEN "scam"
    ELSE IF keyword = "  " THEN ""
    ELSE keyword

\* _load_default_keywords: each default is stored under its lowercased keyword.
LoadDefaultKeywords ==
    [i \in DOMAIN DefaultKeywords |->
        [key |-> Normalize(DefaultKeywords[i].keyword), value |-> DefaultKeywords[i]]]

\* A newly constructed KeywordManager, and nothing done with it yet.
InitStore ==
    /\ detection = NoDetection
    /\ keywords = LoadDefaultKeywords
    /\ exported = NoFile
    /\ target = NoTarget
    /\ last = NoCall

\* No _deduplicate_matches and no clean_text call was made.
NoDedup == [state |-> "none"]
NoCleaning == [state |-> "none"]
InitPure == dedup = NoDedup /\ cleaning = NoCleaning

Init ==
    /\ InitPure
    /\ now = 0
    /\ recent_alerts = <<>>
    /\ alerts_sent = 0
    /\ alerts_suppressed = 0
    /\ max_alerts_per_window = DefaultMaxAlerts
    /\ rate_limit_window = DefaultWindowMinutes
    /\ min_alert_score = DefaultMinAlertScore
    /\ deployment \in Deployments
    /\ pc = [p \in Procs |-> "idle"]
    /\ outcome = [p \in Procs |-> "none"]
    /\ calls = [p \in Procs |-> 0]
    /\ deliveries = [t \in Transports |-> 0]
    /\ log = <<>>
    /\ reconfigured = FALSE
    /\ analysis = NoAnalysis
    /\ calc = NoCalc
    /\ InitStore

Next ==
    \/ \E p \in Procs : SendAlert(p)
    \/ \E p \in Procs : SendMessageReturn(p)
    \/ \E p \in Procs : SendMessageRaise(p)
    \/ \E kwargs \in Kwargs : UpdateConfiguration(kwargs)
    \/ Tick

Spec == Init /\ [][Next]_vars

\* ------------------------------------------------- the score calculator alone
\* FraudKeyword objects as calculate_advanced_score reads them: a category and a
\* score in [0,1].
KeywordSamples ==
    { [category |-> "scam",           score |-> Tenths(10)],
      [category |-> "investment",     score |-> Tenths(9)],
      [category |-> "cryptocurrency", score |-> Tenths(5)],
      [category |-> "romance",        score |-> Tenths(0)] }

KeywordLists == UNION { [1..n -> KeywordSamples] : n \in 0..MaxKw }

\* ContextualFactors as the calculator reads them: the numbers of distinct
\* urgency, financial and contact matches, the message length, the media flag.
MessageLengths == {0, 19, 20, 500, 501}

FactorSamples ==
    [urgency_indicators : 0..MaxSignals, financial_terms : 0..MaxSignals,
     contact_requests : 0..MaxSignals, message_length : MessageLengths,
     has_media : BOOLEAN]

\* The manager as constructed with the default arguments and no bot token.
DefaultDeployment ==
    [bot_available |-> FALSE, enable_desktop_notifications |-> TRUE, enable_sound_alerts |-> TRUE]

InitDefault ==
    /\ now = 0
    /\ recent_alerts = <<>>
    /\ alerts_sent = 0
    /\ alerts_suppressed = 0
    /\ max_alerts_per_window = DefaultMaxAlerts
    /\ rate_limit_window = DefaultWindowMinutes
    /\ min_alert_score = DefaultMinAlertScore
    /\ deployment = DefaultDeployment
    /\ pc = [p \in Procs |-> "idle"]
    /\ outcome = [p \in Procs |-> "none"]
    /\ calls = [p \in Procs |-> 0]
    /\ deliveries = [t \in Transports |-> 0]
    /\ log = <<>>
    /\ reconfigured = FALSE
    /\ analysis = NoAnalysis

InitScore ==
    /\ InitPure
    /\ InitStore
    /\ InitDefault
    /\ \E detected_keywords \in KeywordLists, factors \in FactorSamples :
         calc = [state |-> "called", detected_keywords |-> detected_keywords,
                 factors |-> factors]

\* calculate_advanced_score runs on the arguments and returns the breakdown.
CalculateScore ==
    /\ calc.state = "called"
    /\ calc' = [state |-> "returned", detected_keywords |-> calc.detected_keywords,
                factors |-> calc.factors,
                score_breakdown |-> CalculateAdvancedScore(calc.detected_keywords, calc.factors)]
    /\ UNCHANGED <<now, recent_alerts, alerts_sent, alerts_suppressed, max_alerts_per_window,
                   rate_limit_window, deployment, pc, outcome, calls, deliveries, log,
                   reconfigured, analysis, storeVars,
                   min_alert_score, pureVars>>

NextScore == CalculateScore

SpecScore == InitScore /\ [][NextScore]_vars

\* ---------------------------------------------------------- analyze_and_alert
\* The words the sampled texts are made of: two of the default keywords and two
\* of the default brands. A text is its words joined by single spaces.
Words == {"scam", "lonely", "paypal", "apple"}

Texts == UNION { [1..n -> Words] : n \in 0..MaxWords }

Range(seq) == { seq[i] : i \in DOMAIN seq }

\* len(text) of the words joined by spaces.
RECURSIVE StrLen(_)
StrLen(words) ==
    IF words = <<>> THEN 0
    ELSE IF Len(words) = 1 THEN Len(words[1])
    ELSE Len(words[1]) + 1 + StrLen(Tail(words))

\* combined_text = message_text, plus " " + ocr_text when there is an ocr_text:
\* its words, and the space it starts with when message_text is empty.
CombinedText(context) ==
    [words |-> context.message_text \o context.ocr_text,
     lead  |-> IF context.message_text = <<>> /\ context.ocr_text # <<>> THEN 1 ELSE 0]

\* The further tokens detect_fraud is given: the tokens of the text
\* "URGENT: send bitcoin now for guaranteed profit!!", and "profit" on its own.
Tokens ==
    Words \cup {"URGENT:", "send", "bitcoin", "now", "for", "guaranteed", "profit!!", "profit"}

\* clean_text on one token: lowercased, every character other than a word
\* character, whitespace and . , ! ? - replaced by a space, then stripped. Of the
\* sampled tokens only "URGENT:" changes; "profit!!" keeps its exclamation marks.
CleanToken(token) == IF token = "URGENT:" THEN "urgent" ELSE token

\* The word a \b...\b pattern finds in the lowercased token.
WordIn(token) ==
    IF token = "URGENT:" THEN "urgent"
    ELSE IF token = "profit!!" THEN "profit"
    ELSE token

\* extract_phrases: the cleaned words and the runs of 2 to 4 consecutive cleaned
\* words; a phrase is the sequence of its words.
ExtractPhrases(words) ==
    LET cleaned == [i \in DOMAIN words |-> CleanToken(words[i])]
    IN { SubSeq(cleaned, i, i + length - 1) :
           <<i, length>> \in { pair \in (DOMAIN words) \X (1..4) :
                                 pair[1] + pair[2] - 1 <= Len(words) } }

\* keyword.split() for the default keywords.
KeywordWords(keyword) ==
    IF keyword = "guaranteed profit" THEN <<"guaranteed", "profit">>
    ELSE IF keyword = "send bitcoin" THEN <<"send", "bitcoin">>
    ELSE <<keyword>>

\* _detect_keywords with the exact match only.
DetectKeywordsExact(phrases) ==
    SelectSeq(DefaultKeywords,
              LAMBDA keyword_obj : KeywordWords(keyword_obj.keyword) \in phrases)

\* _detect_keywords: a keyword is detected when it is one of the phrases, or,
\* having several words, when each of its words is one of the phrases.
DetectKeywords(phrases) ==
    SelectSeq(DefaultKeywords,
              LAMBDA keyword_obj :
                \/ KeywordWords(keyword_obj.keyword) \in phrases
                \/ /\ Len(KeywordWords(keyword_obj.keyword)) > 1
                   /\ \A w \in Range(KeywordWords(keyword_obj.keyword)) : <<w>> \in phrases)

\* The terms of URGENCY_PATTERNS, FINANCIAL_PATTERNS and CONTACT_PATTERNS that
\* are among the sampled words.
UrgencyTerms == {"urgent", "now"}
FinancialTerms == {"send", "bitcoin", "profit", "paypal"}
ContactTerms == {}

\* _find_patterns: the distinct matches, counted as the calculator counts them.
FindPatterns(words, terms) == Cardinality({ WordIn(w) : w \in Range(words) } \cap terms)

\* analyze_context(text, None): no context dictionary, so has_media stays False.
AnalyzeContext(words) ==
    [urgency_indicators |-> FindPatterns(words, UrgencyTerms),
     financial_terms    |-> FindPatterns(words, FinancialTerms),
     contact_requests   |-> FindPatterns(words, ContactTerms),
     message_length     |-> StrLen(words),
     has_media          |-> FALSE]

\* fraud_config.SUSPICIOUS_THRESHOLD, 0.7 unless the environment sets it.
SuspiciousThreshold == Tenths(7)

IsSuspicious(score) == score >= SuspiciousThreshold

CreateEmptyResult ==
    [is_suspicious |-> FALSE, fraud_score |-> 0, detected_keywords |-> <<>>]

\* detect_fraud(text)
DetectFraud(words) ==
    IF words = <<>> THEN CreateEmptyResult
    ELSE LET detected_keywords == DetectKeywords(ExtractPhrases(words))
             contextual_factors == AnalyzeContext(words)
             score_breakdown == CalculateAdvancedScore(detected_keywords, contextual_factors)
             final_score == score_breakdown.final_score
         IN [is_suspicious |-> IsSuspicious(final_score),
             fraud_score |-> final_score,
             detected_keywords |->
                 [i \in 1..Len(detected_keywords) |-> detected_keywords[i].keyword]]

\* The default brands whose patterns are among the sampled words, risk_weight in
\* tenths.
BrandsConfig ==
    [paypal |-> [name |-> "PayPal", risk_weight |-> 9],
     apple  |-> [name |-> "Apple",  risk_weight |-> 6]]

\* ocr_text is None (the empty text here) or the brand name read from an image.
OcrTexts == {<<>>} \cup { <<w>> : w \in DOMAIN BrandsConfig }

\* AlertContext, the two fields analyze_and_alert reads.
Contexts == [message_text : Texts, ocr_text : OcrTexts]

\* _calculate_confidence: 0.8, plus 0.1 since the matched text is the pattern,
\* times (0.5 + risk_weight), capped at 1.0.
CalculateConfidence(config) == Min2(Hundredths(9 * (5 + config.risk_weight)), One)

\* _assess_risk
AssessRisk(confidence, risk_weight) ==
    LET combined_score == (confidence * risk_weight) \div 10
    IN IF combined_score >= Tenths(8) THEN "HIGH"
       ELSE IF combined_score >= Tenths(6) THEN "MEDIUM"
       ELSE "LOW"

\* The BrandMatch for the i-th word of the text, which is a brand pattern.
BrandMatchAt(text, i) ==
    LET config == BrandsConfig[text.words[i]]
        confidence == CalculateConfidence(config)
    IN [brand |-> config.name,
        confidence |-> confidence,
        position |-> text.lead + (IF i = 1 THEN 0 ELSE StrLen(SubSeq(text.words, 1, i - 1)) + 1),
        matched_text |-> text.words[i],
        risk_level |-> AssessRisk(confidence, config.risk_weight)]

\* The PayPal pattern "pay pal", of two words.
PayPalWords == <<"pay", "pal">>

\* The BrandMatch for the pattern "pay pal" at the i-th and the next word.
PayPalMatchAt(text, i) ==
    LET config == BrandsConfig["paypal"]
        confidence == CalculateConfidence(config)
    IN [brand |-> config.name,
        confidence |-> confidence,
        position |-> text.lead + (IF i = 1 THEN 0 ELSE StrLen(SubSeq(text.words, 1, i - 1)) + 1),
        matched_text |-> "pay pal",
        risk_level |-> AssessRisk(confidence, config.risk_weight)]

\* _find_brand_matches for every brand, sorted by position as
\* _deduplicate_matches sorts them (no two matches share a position).
RECURSIVE FindBrandMatches(_, _)
FindBrandMatches(text, i) ==
    IF i > Len(text.words) THEN <<>>
    ELSE IF text.words[i] \in DOMAIN BrandsConfig
         THEN <<BrandMatchAt(text, i)>> \o FindBrandMatches(text, i + 1)
         ELSE IF i < Len(text.words) /\ SubSeq(text.words, i, i + 1) = PayPalWords
         THEN <<PayPalMatchAt(text, i)>> \o FindBrandMatches(text, i + 1)
         ELSE FindBrandMatches(text, i + 1)

Abs(n) == IF n < 0 THEN 0 - n ELSE n

RemoveAt(seq, k) == SubSeq(seq, 1, k - 1) \o SubSeq(seq, k + 1, Len(seq))

\* _deduplicate_matches, the loop over the sorted matches: a match overlapping an
\* earlier one is dropped unless it is more confident, and then replaces it.
RECURSIVE DeduplicateMatches(_, _)
DeduplicateMatches(matches, filtered_matches) ==
    IF matches = <<>> THEN filtered_matches
    ELSE LET match == Head(matches)
             overlapping ==
                 { k \in 1..Len(filtered_matches) :
                     Abs(match.position - filtered_matches[k].position)
                       < Max2(Len(match.matched_text), Len(filtered_matches[k].matched_text)) }
         IN IF overlapping = {}
            THEN DeduplicateMatches(Tail(matches), Append(filtered_matches, match))
            ELSE LET k == CHOOSE k \in overlapping : \A other \in overlapping : k <= other
                 IN IF match.confidence <= filtered_matches[k].confidence
                    THEN DeduplicateMatches(Tail(matches), filtered_matches)
                    ELSE DeduplicateMatches(Tail(matches),
                                            Append(RemoveAt(filtered_matches, k), match))

\* detect_brands(text)
DetectBrands(text) ==
    IF text.words = <<>> THEN <<>>
    ELSE DeduplicateMatches(FindBrandMatches(text, 1), <<>>)

\* risk_weights.get(match.risk_level, 0.0) in AlertManager._calculate_risk_score.
RiskWeights(risk_level) ==
    CASE risk_level = "low"      -> Tenths(2)
      [] risk_level = "medium"   -> Tenths(5)
      [] risk_level = "high"     -> Tenths(8)
      [] risk_level = "critical" -> Tenths(10)
      [] OTHER                   -> 0

\* max(numbers, default=0.0) of non-negative numbers.
RECURSIVE MaxOf(_)
MaxOf(numbers) ==
    IF numbers = <<>> THEN 0 ELSE Max2(Head(numbers), MaxOf(Tail(numbers)))

\* AlertManager._calculate_risk_score
CalculateRiskScore(fraud_result, brand_matches) ==
    LET fraud_score == fraud_result.fraud_score
        brand_score ==
            IF brand_matches # <<>>
            THEN MaxOf([i \in 1..Len(brand_matches) |-> RiskWeights(brand_matches[i].risk_level)])
            ELSE 0
    IN IF fraud_score > 0 /\ brand_score > 0
       THEN Min2(One, (fraud_score * 7) \div 10 + (brand_score * 5) \div 10)
       ELSE IF fraud_score > 0 THEN fraud_score
       ELSE IF brand_score > 0 THEN brand_score
       ELSE 0

\* AlertManager._determine_severity
DetermineSeverity(risk_score, has_brands) ==
    IF has_brands /\ risk_score > Tenths(7) THEN "CRITICAL"
    ELSE IF risk_score > Tenths(8) THEN "HIGH"
    ELSE IF risk_score > Tenths(6) THEN "MEDIUM"
    ELSE "LOW"

\* analyze_and_alert, the brand matches that alone raise an alert.
HighRiskBrands(brand_matches) ==
    SelectSeq(brand_matches, LAMBDA m : m.risk_level \in {"high", "critical"})

\* analyze_and_alert, should_alert.
ShouldAlert(fraud_result, brand_matches) ==
    IF fraud_result.is_suspicious THEN TRUE
    ELSE IF brand_matches # <<>> THEN HighRiskBrands(brand_matches) # <<>>
    ELSE FALSE

\* analyze_and_alert, alert_type when should_alert is set.
AlertTypeIgnoringBrands(fraud_result, brand_matches) == "FRAUD_ONLY"

AlertTypeOf(fraud_result, brand_matches) ==
    IF fraud_result.is_suspicious
    THEN IF brand_matches # <<>> THEN "COMBINED" ELSE "FRAUD_ONLY"
    ELSE "BRAND_ONLY"

\* The severity taken from the fraud score alone, whether brands matched or not.
SeverityIgnoringBrands(fraud_result, brand_matches, risk_score) ==
    DetermineSeverity(fraud_result.fraud_score, FALSE)

\* analyze_and_alert, severity when should_alert is set.
SeverityOf(fraud_result, brand_matches, risk_score) ==
    IF fraud_result.is_suspicious /\ brand_matches = <<>>
    THEN DetermineSeverity(fraud_result.fraud_score, FALSE)
    ELSE DetermineSeverity(risk_score, TRUE)

\* Alert._calculate_risk_score, run by __post_init__.
AlertCalculateRiskScore(alert_type, fraud_result, brand_matches) ==
    LET fraud_score == fraud_result.fraud_score
        brand_score ==
            IF brand_matches # <<>>
            THEN MaxOf([i \in 1..Len(brand_matches) |-> brand_matches[i].confidence])
            ELSE 0
    IN IF alert_type = "COMBINED"
       THEN Min2((fraud_score * 6) \div 10 + (brand_score * 4) \div 10 + Tenths(2), One)
       ELSE IF alert_type = "FRAUD_ONLY" THEN fraud_score
       ELSE IF alert_type = "BRAND_ONLY" THEN (brand_score * 8) \div 10
       ELSE 0

\* Alert(alert_type=..., severity=..., ..., risk_score=risk_score): __post_init__
\* replaces the risk_score passed in by the alert's own.
Alert(alert_type, severity, fraud_result, brand_matches, risk_score) ==
    [alert_type |-> alert_type, severity |-> severity,
     risk_score |-> AlertCalculateRiskScore(alert_type, fraud_result, brand_matches)]

\* The task whose analyze_and_alert calls are followed.
Caller == "h1"

\* The text detect_fraud would be given were it run on the combined text.
FraudTextCombined(context) == context.message_text \o context.ocr_text

\* The text analyze_and_alert gives detect_fraud: context.message_text.
FraudText(context) == context.message_text

\* analyze_and_alert after it called send_alert: it waits while send_alert awaits
\* telegram_client.send_message, and returns once send_alert has returned.
AfterSendAlertEntry(p) ==
    IF pc[p] = "idle" THEN AfterSendAlert(outcome[p] = "sent") ELSE "pending"

\* analyze_and_alert(context) from its entry to its first suspension or its
\* return: the detections, the decision, the Alert, and, if an alert is due, the
\* wait for a connection or the call of send_alert up to its first suspension.
AnalyzeAndAlert(p, context) ==
    /\ pc[p] = "idle"
    /\ NCalls < MaxCalls
    /\ \E fraud_result \in {DetectFraud(FraudText(context))},
          brand_matches \in {DetectBrands(CombinedText(context))} :
       \E risk_score \in {CalculateRiskScore(fraud_result, brand_matches)},
          should_alert \in {ShouldAlert(fraud_result, brand_matches)} :
         /\ IF should_alert
            THEN \E is_connected \in BOOLEAN :
                   IF is_connected
                   THEN SendAlertEntry(p)
                   ELSE /\ pc' = [pc EXCEPT ![p] = "connect"]
                        /\ UNCHANGED <<recent_alerts, alerts_sent, alerts_suppressed,
                                       outcome, calls, deliveries, log>>
            ELSE UNCHANGED <<recent_alerts, alerts_sent, alerts_suppressed, pc,
                             outcome, calls, deliveries, log>>
         /\ analysis' =
              [state |-> "analyzed", context |-> context,
               fraud_result |-> fraud_result, brand_matches |-> brand_matches,
               risk_score |-> risk_score,
               alerts |-> IF should_alert
                          THEN <<Alert(AlertTypeOf(fraud_result, brand_matches),
                                       SeverityOf(fraud_result, brand_matches, risk_score),
                                       fraud_result, brand_matches, risk_score)>>
                          ELSE <<>>,
               raised |-> FALSE,
               returned |-> IF ~should_alert THEN "None"
                            ELSE AfterSendAlertEntry(p)']
    /\ UNCHANGED <<now, max_alerts_per_window, rate_limit_window, deployment,
                   reconfigured, calc, storeVars,
                   min_alert_score, pureVars>>

\* The awaited telegram_client.start or connect returns: send_alert is called.
ConnectReturn(p) ==
    /\ pc[p] = "connect"
    /\ SendAlertEntry(p)
    /\ analysis' = [analysis EXCEPT !.returned = AfterSendAlertEntry(p)']
    /\ UNCHANGED <<now, max_alerts_per_window, rate_limit_window, deployment,
                   reconfigured, calc, storeVars,
                   min_alert_score, pureVars>>

\* The awaited telegram_client.start or connect raises: analyze_and_alert logs
\* the error and returns None.
ConnectRaise(p) ==
    /\ pc[p] = "connect"
    /\ pc' = [pc EXCEPT ![p] = "idle"]
    /\ analysis' = [analysis EXCEPT !.raised = TRUE, !.returned = "None"]
    /\ UNCHANGED <<now, recent_alerts, alerts_sent, alerts_suppressed,
                   max_alerts_per_window, rate_limit_window, deployment, outcome, calls,
                   deliveries, log, reconfigured, calc, storeVars,
                   min_alert_score, pureVars>>

NextAnalyze ==
    \/ \E context \in Contexts : AnalyzeAndAlert(Caller, context)
    \/ ConnectReturn(Caller)
    \/ ConnectRaise(Caller)
    \/ SendMessageReturn(Caller)
    \/ SendMessageRaise(Caller)

\* The manager as constructed with the default arguments, before any call.
InitAnalyze == InitDefault /\ calc = NoCalc /\ InitStore /\ InitPure

SpecAnalyze == InitAnalyze /\ [][NextAnalyze]_vars

\* ----------------------------------------- analyze_and_alert and the ocr_text
\* Contexts whose ocr_text is not a brand name: nothing, a word that ends a brand
\* pattern of two words, a word that is no keyword, and a fraud keyword.
OcrSamples == {<<>>, <<"pal">>, <<"now">>, <<"scam">>}
OcrMessageTexts == {<<>>, <<"scam">>, <<"lonely">>, <<"scam", "pay">>, <<"scam", "paypal">>}
OcrContexts == [message_text : OcrMessageTexts, ocr_text : OcrSamples]

NextOcr ==
    \/ \E context \in OcrContexts : AnalyzeAndAlert(Caller, context)
    \/ ConnectReturn(Caller)
    \/ ConnectRaise(Caller)
    \/ SendMessageReturn(Caller)
    \/ SendMessageRaise(Caller)

SpecOcr == InitAnalyze /\ [][NextOcr]_vars

\* ------------------------------------------------------ update_configuration
\* The keyword arguments with min_alert_score among them: below 0, in range,
\* above 1.
MinAlertScoreArgs == {Tenths(0 - 5), Tenths(5), Tenths(15)}

ConfigKwargs ==
    Kwargs \cup { kwargs @@ [name \in {"min_alert_score"} |-> value] :
                    kwargs \in Kwargs, value \in MinAlertScoreArgs }

\* The manager as constructed with the default arguments; one task sends alerts
\* while the configuration is updated.
InitConfig == InitDefault /\ calc = NoCalc /\ InitStore /\ InitPure

NextConfig ==
    \/ \E kwargs \in ConfigKwargs : UpdateConfiguration(kwargs)
    \/ SendAlert(Caller)
    \/ SendMessageReturn(Caller)
    \/ SendMessageRaise(Caller)
    \/ Tick

SpecConfig == InitConfig /\ [][NextConfig]_vars

\* ------------------------------------------------ analyze_and_alert: its return
\* analyze_and_alert calls on a manager of any deployment whose rate-limit
\* options update_configuration changes between the calls, so that alerts are
\* delivered by the bot or by the client, suppressed, and lost to a raise.
ReturnContexts ==
    { [message_text |-> <<>>, ocr_text |-> <<>>],
      [message_text |-> <<"scam">>, ocr_text |-> <<>>],
      [message_text |-> <<"scam">>, ocr_text |-> <<"paypal">>] }

NextReturn ==
    \/ \E context \in ReturnContexts : AnalyzeAndAlert(Caller, context)
    \/ ConnectReturn(Caller)
    \/ ConnectRaise(Caller)
    \/ SendMessageReturn(Caller)
    \/ SendMessageRaise(Caller)
    \/ \E kwargs \in Kwargs : UpdateConfiguration(kwargs)

SpecReturn == Init /\ [][NextReturn]_vars

\* ------------------------------------------------------------- risk levels
\* The variables of the alert manager and of the score calculator.
managerVars == <<now, recent_alerts, alerts_sent, alerts_suppressed, max_alerts_per_window,
                 rate_limit_window, min_alert_score, deployment, pc, outcome, calls,
                 deliveries, log,
                 reconfigured, analysis, calc>>

\* The scores of [0,1] in steps of 0.01.
Scores == { Hundredths(k) : k \in 0..100 }

\* DetectionResult.risk_level
RiskLevel(fraud_score) ==
    IF fraud_score >= Hundredths(90) THEN "CRITICAL"
    ELSE IF fraud_score >= Hundredths(75) THEN "HIGH"
    ELSE IF fraud_score >= Hundredths(50) THEN "MEDIUM"
    ELSE IF fraud_score >= Hundredths(25) THEN "LOW"
    ELSE "MINIMAL"

\* FraudDetectionConfig.RISK_LEVELS, in the order of the dictionary.
RISK_LEVELS ==
    << [level |-> "LOW",      min_score |-> Tenths(0), max_score |-> Tenths(3)],
       [level |-> "MEDIUM",   min_score |-> Tenths(3), max_score |-> Tenths(7)],
       [level |-> "HIGH",     min_score |-> Tenths(7), max_score |-> Tenths(9)],
       [level |-> "CRITICAL", min_score |-> Tenths(9), max_score |-> Tenths(10)] >>

\* FraudDetectionConfig.get_risk_level: the first level whose range holds the
\* score, and CRITICAL when no range does.
GetRiskLevel(score) ==
    LET holding == { i \in DOMAIN RISK_LEVELS :
                       RISK_LEVELS[i].min_score <= score /\ score < RISK_LEVELS[i].max_score }
    IN IF holding = {} THEN "CRITICAL"
       ELSE RISK_LEVELS[CHOOSE i \in holding : \A j \in holding : i <= j].level

\* A DetectionResult with some fraud_score in [0,1], no level read from it yet.
InitLevels ==
    /\ InitPure
    /\ InitDefault
    /\ calc = NoCalc
    /\ keywords = LoadDefaultKeywords
    /\ exported = NoFile
    /\ target = NoTarget
    /\ last = NoCall
    /\ \E fraud_score \in Scores :
         detection = [state |-> "result", fraud_score |-> fraud_score,
                      risk_level |-> "none", config_risk_level |-> "none"]

\* result.risk_level is read.
ReadRiskLevel ==
    /\ detection.state = "result"
    /\ detection.risk_level = "none"
    /\ detection' = [detection EXCEPT !.risk_level = RiskLevel(detection.fraud_score)]
    /\ UNCHANGED <<managerVars, pureVars, keywords, exported, target, last>>

\* fraud_config.get_risk_level(result.fraud_score) is called.
GetRiskLevelCall ==
    /\ detection.state = "result"
    /\ detection.config_risk_level = "none"
    /\ detection' = [detection EXCEPT !.config_risk_level = GetRiskLevel(detection.fraud_score)]
    /\ UNCHANGED <<managerVars, pureVars, keywords, exported, target, last>>

NextLevels == ReadRiskLevel \/ GetRiskLevelCall

SpecLevels == InitLevels /\ [][NextLevels]_vars

\* ------------------------------------------------------------- detect_fraud
\* The scenario text "URGENT: send bitcoin now for guaranteed profit!!".
ScenarioText == <<"URGENT:", "send", "bitcoin", "now", "for", "guaranteed", "profit!!">>

\* What detect_fraud is called with: a string of up to MaxWords tokens or the
\* scenario text, a string of spaces only, None, an integer, a list.
DetectInputs ==
    { [type |-> "str", words |-> words, spaces |-> 0] :
        words \in UNION { [1..n -> Tokens] : n \in 0..MaxWords } \cup {ScenarioText} }
    \cup { [type |-> "str", words |-> <<>>, spaces |-> 3],
           [type |-> "NoneType"],
           [type |-> "int", value |-> 0],
           [type |-> "int", value |-> 5],
           [type |-> "list", items |-> 0],
           [type |-> "list", items |-> 1] }

\* bool(text)
Truthy(text) ==
    CASE text.type = "NoneType" -> FALSE
      [] text.type = "int"      -> text.value # 0
      [] text.type = "list"     -> text.items > 0
      [] text.type = "str"      -> text.words # <<>> \/ text.spaces > 0

\* detect_fraud(text): `not text` is evaluated first; text.strip() is looked up
\* on whatever text is, and only a string has it.
DetectFraudOutcome(text) ==
    IF ~Truthy(text)
    THEN [state |-> "returned", text |-> text, result |-> CreateEmptyResult,
          store_read |-> FALSE]
    ELSE IF text.type # "str"
    THEN [state |-> "raised", text |-> text, error |-> "AttributeError",
          store_read |-> FALSE]
    ELSE [state |-> "returned", text |-> text, result |-> DetectFraud(text.words),
          store_read |-> text.words # <<>>]

InitDetect ==
    /\ InitPure
    /\ InitDefault
    /\ calc = NoCalc
    /\ keywords = LoadDefaultKeywords
    /\ exported = NoFile
    /\ target = NoTarget
    /\ last = NoCall
    /\ \E text \in DetectInputs : detection = [state |-> "called", text |-> text]

\* The detect_fraud call runs.
DetectFraudCall ==
    /\ detection.state = "called"
    /\ detection' = DetectFraudOutcome(detection.text)
    /\ UNCHANGED <<managerVars, pureVars, keywords, exported, target, last>>

NextDetect == DetectFraudCall

SpecDetect == InitDetect /\ [][NextDetect]_vars

\* ------------------------------------------------------------ KeywordManager
\* The arguments the store is called with: a keyword that is a default, the
\* same with spaces and a capital, a new keyword, a blank keyword; a score in
\* range and one on either side of it.
KeywordArgs == {"scam", " Scam ", "new", "  "}
ScoreArgs == {Tenths(0 - 1), Tenths(5), Tenths(11)}
ArgCategory == "general"
ArgDescription == "added"

\* FraudCategory's values.
FraudCategories ==
    {"scam", "investment", "phishing", "cryptocurrency", "romance", "tech_support",
     "lottery", "employment", "general"}

Keys(store) == { store[i].key : i \in DOMAIN store }

\* get_all_keywords(), as a set of records.
AllKeywords(store) == { store[i].value : i \in DOMAIN store }

\* FraudKeyword.__post_init__ raises ValueError.
PostInitRaises(keyword, score) == ~(0 <= score /\ score <= One) \/ keyword = ""

\* add_keyword without the check that the keyword is new: the record is stored
\* in place of the one with the same key, or at the end.
AddKeywordOverwriting(store, keyword, category, score, description) ==
    LET normalized == Normalize(keyword)
        entry == [key |-> normalized,
                  value |-> [keyword |-> normalized, category |-> category,
                             score |-> score, description |-> description]]
    IN IF PostInitRaises(normalized, score)
       THEN [keywords |-> store, returned |-> FALSE]
       ELSE [keywords |-> IF normalized \in Keys(store)
                          THEN [i \in DOMAIN store |->
                                  IF store[i].key = normalized THEN entry ELSE store[i]]
                          ELSE Append(store, entry),
             returned |-> TRUE]

\* add_keyword with a string keyword and a numeric score.
AddKeyword(store, keyword, category, score, description) ==
    LET normalized == Normalize(keyword)
    IN IF PostInitRaises(normalized, score)
       THEN [keywords |-> store, returned |-> FALSE]
       ELSE IF normalized \in Keys(store)
       THEN [keywords |-> store, returned |-> FALSE]
       ELSE [keywords |-> Append(store,
                                 [key |-> normalized,
                                  value |-> [keyword |-> normalized, category |-> category,
                                             score |-> score, description |-> description]]),
             returned |-> TRUE]

\* remove_keyword that deletes nothing.
RemoveNothing(store, keyword) ==
    [keywords |-> store, returned |-> Normalize(keyword) \in Keys(store)]

\* remove_keyword
RemoveKeyword(store, keyword) ==
    LET keyword_lower == Normalize(keyword)
    IN IF keyword_lower \in Keys(store)
       THEN [keywords |-> SelectSeq(store, LAMBDA entry : entry.key # keyword_lower),
             returned |-> TRUE]
       ELSE [keywords |-> store, returned |-> FALSE]

\* update_keyword_score without the check of the range.
UpdateKeywordScoreUnchecked(store, keyword, new_score) ==
    LET keyword_lower == Normalize(keyword)
    IN IF keyword_lower \in Keys(store)
       THEN [keywords |-> [i \in DOMAIN store |->
                             IF store[i].key = keyword_lower
                             THEN [store[i] EXCEPT !.value.score = new_score]
                             ELSE store[i]],
             returned |-> TRUE]
       ELSE [keywords |-> store, returned |-> FALSE]

\* update_keyword_score
UpdateKeywordScore(store, keyword, new_score) ==
    IF ~(0 <= new_score /\ new_score <= One)
    THEN [keywords |-> store, returned |-> FALSE]
    ELSE LET keyword_lower == Normalize(keyword)
         IN IF keyword_lower \in Keys(store)
            THEN [keywords |-> [i \in DOMAIN store |->
                                  IF store[i].key = keyword_lower
                                  THEN [store[i] EXCEPT !.value.score = new_score]
                                  ELSE store[i]],
                  returned |-> TRUE]
            ELSE [keywords |-> store, returned |-> FALSE]

\* A JSON value: a string, a number, or a field that is not there.
Str(value) == [type |-> "str", str |-> value]
Num(value) == [type |-> "number", num |-> value]
Absent == [type |-> "absent"]

\* export_to_json, the "keywords" array written to the file.
ExportData(store) ==
    [i \in DOMAIN store |->
        [keyword |-> Str(store[i].value.keyword),
         category |-> Str(store[i].value.category),
         score |-> Num(store[i].value.score),
         description |-> Str(store[i].value.description)]]

\* The records found in hand-written files: a valid new keyword; and a keyword
\* that is a default and one record for each way of being invalid.
ValidNew ==
    [keyword |-> Str("new"), category |-> Str("general"), score |-> Num(Tenths(5)),
     description |-> Absent]

OtherRecords ==
    { [keyword |-> Str("scam"), category |-> Str("scam"),    score |-> Num(Tenths(5)),
       description |-> Str("again")],
      [keyword |-> Str("bad"),  category |-> Str("nope"),    score |-> Num(Tenths(5)),
       description |-> Absent],
      [keyword |-> Str("bad"),  category |-> Str("general"), score |-> Absent,
       description |-> Absent],
      [keyword |-> Str("bad"),  category |-> Str("general"), score |-> Num(Tenths(11)),
       description |-> Absent],
      [keyword |-> Str("bad"),  category |-> Str("general"), score |-> Str("high"),
       description |-> Absent],
      [keyword |-> Num(7),      category |-> Str("general"), score |-> Num(Tenths(5)),
       description |-> Absent],
      [keyword |-> Str(""),     category |-> Str("general"), score |-> Num(Tenths(5)),
       description |-> Absent] }

\* The hand-written files: up to MaxRecords records, all the valid new keyword
\* but at most one, which is at any place.
FileSamples ==
    UNION { { [i \in 1..n |-> IF i = place THEN other ELSE ValidNew] :
                place \in 0..n, other \in OtherRecords } : n \in 0..MaxRecords }

\* One pass of the loop of import_from_json over kw_data: "skipped" when the
\* inner except catches a KeyError or ValueError, "aborted" when add_keyword
\* raises something else (str.strip on a non-string, <= on a non-number),
\* otherwise what add_keyword did.
ImportRecord(store, kw_data) ==
    IF kw_data.category.type = "absent" \/ kw_data.category.str \notin FraudCategories
    THEN [keywords |-> store, step |-> "skipped"]
    ELSE IF kw_data.keyword.type = "absent" \/ kw_data.score.type = "absent"
    THEN [keywords |-> store, step |-> "skipped"]
    ELSE IF kw_data.keyword.type # "str" \/ kw_data.score.type # "number"
    THEN [keywords |-> store, step |-> "aborted"]
    ELSE LET added == AddKeyword(store, kw_data.keyword.str, kw_data.category.str,
                                 kw_data.score.num,
                                 IF kw_data.description.type = "absent" THEN ""
                                 ELSE kw_data.description.str)
         IN [keywords |-> added.keywords,
             step |-> IF added.returned THEN "added" ELSE "skipped"]

\* import_from_json on the records of an existing file: the loop, left at the
\* first record that aborts, and the value returned.
RECURSIVE ImportRecords(_, _, _)
ImportRecords(store, records, imported_count) ==
    IF records = <<>>
    THEN [keywords |-> store, imported_count |-> imported_count, returned |-> TRUE]
    ELSE LET pass == ImportRecord(store, Head(records))
         IN IF pass.step = "aborted"
            THEN [keywords |-> store, imported_count |-> imported_count, returned |-> FALSE]
            ELSE ImportRecords(pass.keywords, Tail(records),
                               imported_count + (IF pass.step = "added" THEN 1 ELSE 0))

\* import_from_json(file_path)
ImportFromJson(store, file) ==
    IF ~file.exists
    THEN [keywords |-> store, imported_count |-> 0, returned |-> FALSE]
    ELSE ImportRecords(store, file.keywords, 0)

\* add_keyword(keyword, category, score, description) is called.
AddKeywordCall(keyword, score) ==
    /\ last.n < MaxOps
    /\ \E added \in {AddKeyword(keywords, keyword, ArgCategory, score, ArgDescription)} :
         /\ keywords' = added.keywords
         /\ last' = [op |-> "add_keyword", n |-> last.n + 1, keyword |-> keyword, score |-> score,
                     returned |-> added.returned, before |-> keywords]
    /\ UNCHANGED <<managerVars, pureVars, detection, exported, target>>

\* remove_keyword(keyword) is called; the call record keeps what the add_keyword
\* call just before it, if it was one for the same keyword, started from.
RemoveKeywordCall(keyword) ==
    /\ last.n < MaxOps
    /\ \E removed \in {RemoveKeyword(keywords, keyword)} :
         /\ keywords' = removed.keywords
         /\ last' = [op |-> "remove_keyword", n |-> last.n + 1, keyword |-> keyword,
                     returned |-> removed.returned,
                     after_add |-> /\ last.op = "add_keyword"
                                   /\ Normalize(last.keyword) = Normalize(keyword),
                     before_add |-> IF last.op = "add_keyword" THEN last.before ELSE <<>>]
    /\ UNCHANGED <<managerVars, pureVars, detection, exported, target>>

\* update_keyword_score(keyword, new_score) is called.
UpdateKeywordScoreCall(keyword, new_score) ==
    /\ last.n < MaxOps
    /\ \E updated \in {UpdateKeywordScore(keywords, keyword, new_score)} :
         /\ keywords' = updated.keywords
         /\ last' = [op |-> "update_keyword_score", n |-> last.n + 1, keyword |-> keyword,
                     new_score |-> new_score, returned |-> updated.returned]
    /\ UNCHANGED <<managerVars, pureVars, detection, exported, target>>

\* export_to_json() is called and writes the file.
ExportToJsonCall ==
    /\ last.n < MaxOps
    /\ exported' = [exists |-> TRUE, keywords |-> ExportData(keywords)]
    /\ last' = [op |-> "export_to_json", n |-> last.n + 1, returned |-> TRUE]
    /\ UNCHANGED <<managerVars, pureVars, detection, keywords, target>>

\* import_from_json(file_path) is called on a hand-written file or on the
\* exported file.
ImportFromJsonCall(file) ==
    /\ last.n < MaxOps
    /\ \E imported \in {ImportFromJson(keywords, file)} :
         /\ keywords' = imported.keywords
         /\ last' = [op |-> "import_from_json", n |-> last.n + 1, file |-> file,
                     imported_count |-> imported.imported_count,
                     returned |-> imported.returned]
    /\ UNCHANGED <<managerVars, pureVars, detection, exported, target>>

\* A second KeywordManager is constructed and imports the exported file.
TargetImportsExported ==
    /\ last.n < MaxOps
    /\ exported.exists
    /\ target' = [constructed |-> TRUE, file |-> exported,
                  keywords |-> ImportFromJson(LoadDefaultKeywords, exported).keywords]
    /\ last' = [op |-> "target.import_from_json", n |-> last.n + 1,
                returned |-> ImportFromJson(LoadDefaultKeywords, exported).returned]
    /\ UNCHANGED <<managerVars, pureVars, detection, keywords, exported>>

InitKeywords == InitDefault /\ calc = NoCalc /\ InitStore /\ InitPure

NextKeywords ==
    \/ \E keyword \in KeywordArgs, score \in ScoreArgs : AddKeywordCall(keyword, score)
    \/ \E keyword \in KeywordArgs : RemoveKeywordCall(keyword)
    \/ \E keyword \in KeywordArgs, new_score \in ScoreArgs :
         UpdateKeywordScoreCall(keyword, new_score)
    \/ ExportToJsonCall
    \/ \E records \in FileSamples : ImportFromJsonCall([exists |-> TRUE, keywords |-> records])
    \/ ImportFromJsonCall(exported)
    \/ TargetImportsExported

SpecKeywords == InitKeywords /\ [][NextKeywords]_vars

\* ------------------------------------------------------ _deduplicate_matches
\* The candidate matches: a short and a long pattern of a brand, at any position,
\* with the confidence of a brand of risk_weight 0.5, 0.6, or 0.7 and more.
MatchedTexts == {"bnb", "binance"}
Confidences == {Tenths(9), Hundredths(99), One}
Candidates ==
    { [brand |-> "Binance", confidence |-> confidence, position |-> position,
       matched_text |-> matched_text, risk_level |-> "HIGH"] :
        confidence \in Confidences, position \in 0..MaxPosition,
        matched_text \in MatchedTexts }
CandidateLists == UNION { [1..n -> Candidates] : n \in 0..MaxMatches }

\* matches.sort(key=lambda x: x.position): stable, by insertion from the left.
RECURSIVE InsertByPosition(_, _)
InsertByPosition(sorted, match) ==
    IF sorted = <<>> THEN <<match>>
    ELSE IF Head(sorted).position <= match.position
         THEN <<Head(sorted)>> \o InsertByPosition(Tail(sorted), match)
         ELSE <<match>> \o sorted

RECURSIVE SortByPosition(_)
SortByPosition(matches) ==
    IF matches = <<>> THEN <<>>
    ELSE InsertByPosition(SortByPosition(SubSeq(matches, 1, Len(matches) - 1)),
                          matches[Len(matches)])

\* _deduplicate_matches(matches)
DeduplicateMatchesOf(matches) ==
    IF matches = <<>> THEN <<>>
    ELSE DeduplicateMatches(SortByPosition(matches), <<>>)

InitDedup ==
    /\ InitDefault
    /\ calc = NoCalc
    /\ InitStore
    /\ cleaning = NoCleaning
    /\ \E matches \in CandidateLists : dedup = [state |-> "called", matches |-> matches]

\* _deduplicate_matches returns.
DeduplicateMatchesCall ==
    /\ dedup.state = "called"
    /\ dedup' = [state |-> "returned", matches |-> dedup.matches,
                 filtered_matches |-> DeduplicateMatchesOf(dedup.matches)]
    /\ UNCHANGED <<managerVars, storeVars, cleaning>>

NextDedup == DeduplicateMatchesCall

SpecDedup == InitDedup /\ [][NextDedup]_vars

\* ------------------------------------------------------------------ clean_text
\* The characters of the texts: a lowercase and an uppercase letter, a space and
\* a tab, a punctuation mark that is kept and a special character that is not.
Chars == {"a", "A", " ", "\t", "!", "@"}
CharTexts == UNION { [1..n -> Chars] : n \in 0..MaxChars }

\* \s, and the characters [\w\s\.\,\!\?\-] keeps.
IsSpace(char) == char \in {" ", "\t"}
IsKept(char) == char \in {"a", "A", "!"} \/ IsSpace(char)

\* text.lower()
Lower(text) == [i \in DOMAIN text |-> IF text[i] = "A" THEN "a" ELSE text[i]]

\* re.sub(r'\s+', ' ', cleaned): each run of whitespace becomes one space.
RECURSIVE CollapseSpaces(_)
CollapseSpaces(text) ==
    IF text = <<>> THEN <<>>
    ELSE IF IsSpace(Head(text))
         THEN IF Len(text) > 1 /\ IsSpace(text[2])
              THEN CollapseSpaces(Tail(text))
              ELSE <<" ">> \o CollapseSpaces(Tail(text))
         ELSE <<Head(text)>> \o CollapseSpaces(Tail(text))

\* re.sub(r'[^\w\s\.\,\!\?\-]', ' ', cleaned)
ReplaceSpecial(text) == [i \in DOMAIN text |-> IF IsKept(text[i]) THEN text[i] ELSE " "]

\* str.strip()
RECURSIVE Strip(_)
Strip(text) ==
    IF text = <<>> THEN <<>>
    ELSE IF IsSpace(Head(text)) THEN Strip(Tail(text))
    ELSE IF IsSpace(text[Len(text)]) THEN Strip(SubSeq(text, 1, Len(text) - 1))
    ELSE text

\* TextPreprocessor.clean_text
CleanText(text) ==
    IF text = <<>> THEN <<>>
    ELSE Strip(ReplaceSpecial(CollapseSpaces(Lower(text))))

InitClean ==
    /\ InitDefault
    /\ calc = NoCalc
    /\ InitStore
    /\ dedup = NoDedup
    /\ \E text \in CharTexts : cleaning = [state |-> "called", text |-> text]

\* clean_text returns.
CleanTextCall ==
    /\ cleaning.state = "called"
    /\ cleaning' = [state |-> "returned", text |-> cleaning.text,
                    cleaned |-> CleanText(cleaning.text)]
    /\ UNCHANGED <<managerVars, storeVars, dedup>>

NextClean == CleanTextCall

SpecClean == InitClean /\ [][NextClean]_vars

\* ------------------------------------------------------ rate limiter: claims
\* The chat deliveries made in the window that ends at t.
SendsInWindow(t) ==
    Cardinality({ i \in DOMAIN log : log[i] > t - rate_limit_window /\ log[i] <= t })

\* Task p starts a send_alert call in this step.
Calls(p) == calls'[p] = calls[p] + 1

\* C1: with the limit N and the window W left alone since the first call, a
\* send_alert call is suppressed (returns False, nothing delivered) exactly when N
\* alerts were sent in the window that ends at the call; with fewer it is let
\* through, and it returns True when its delivery succeeds. So N calls in one
\* window succeed, the next one in that window is suppressed, and a call made once
\* the window has elapsed since the earlier sends succeeds again.
C1_RateLimitWindow ==
    [][~reconfigured' =>
        \A p \in Procs :
          /\ Calls(p) =>
                /\ (SendsInWindow(now) >= max_alerts_per_window)
                      <=> (outcome'[p] = "suppressed")
                /\ outcome'[p] = "suppressed" =>
                      /\ pc'[p] = "idle"
                      /\ deliveries' = deliveries
                      /\ log' = log
                /\ outcome'[p] # "suppressed" =>
                      \/ outcome'[p] = "sent" /\ pc'[p] = "idle" /\ Len(log') = Len(log) + 1
                      \/ pc'[p] = "send_message"
          /\ (pc[p] = "send_message" /\ pc'[p] = "idle" /\ Len(log') = Len(log) + 1)
                => outcome'[p] = "sent"
    ]_vars

\* C1 witness: with N = 1 a first alert was sent, a call in its window was
\* suppressed, and a call made after the window had elapsed was sent again.
C1_Witness ==
    /\ ~reconfigured
    /\ max_alerts_per_window = 1
    /\ alerts_suppressed >= 1
    /\ Len(log) = 2
    /\ log[2] >= log[1] + rate_limit_window
    /\ \A p \in Procs : pc[p] = "idle"

\* C2: the check and the append of one call are one atomic step, so at no time
\* were more than max_alerts_per_window alerts delivered in a trailing window.
C2_AtomicCheckAndAppend ==
    ~reconfigured =>
        \A t \in 0..MaxTime : SendsInWindow(t) <= max_alerts_per_window

\* C3: a call that passed the rate-limit check and whose delivery then raised is
\* counted all the same: a timestamp is appended and alerts_sent grows.
C3_FailedDeliveryCounted ==
    [][\A p \in Procs :
         (pc[p] = "send_message" /\ outcome'[p] = "failed") =>
             /\ Len(recent_alerts') = Len(recent_alerts) + 1
             /\ alerts_sent' > alerts_sent
    ]_vars

\* The timestamps left when those older than now - window are dropped.
NotOlderThanCutoff ==
    SelectSeq(recent_alerts, LAMBDA alert_time : ~(alert_time < now - rate_limit_window))

\* The timestamps left when only those newer than now - window are kept.
NewerThanCutoff ==
    SelectSeq(recent_alerts, LAMBDA alert_time : alert_time > now - rate_limit_window)

\* What C4 says of a step in which p calls send_alert with `remaining` timestamps
\* left: nothing is delivered, False is returned, alerts_suppressed grows by one,
\* alerts_sent and the remaining timestamps stay.
SuppressedSilently(p, remaining) ==
    (Calls(p) /\ Len(remaining) >= max_alerts_per_window) =>
        /\ deliveries' = deliveries
        /\ log' = log
        /\ outcome'[p] = "suppressed"
        /\ pc'[p] = "idle"
        /\ alerts_suppressed' = alerts_suppressed + 1
        /\ alerts_sent' = alerts_sent
        /\ recent_alerts' = remaining

\* C4 as stated: the timestamps older than now - window are pruned, so one that
\* is exactly now - window old still counts.
C4_SuppressAsStated ==
    [][\A p \in Procs : SuppressedSilently(p, NotOlderThanCutoff)]_vars

\* C4 amended: the timestamps at or before now - window are pruned (only those
\* newer than now - window remain); when max_alerts_per_window or more remain the
\* call delivers nothing, returns False, adds one to alerts_suppressed and leaves
\* alerts_sent and the remaining timestamps as they are.
C4_SuppressSilently ==
    [][\A p \in Procs : SuppressedSilently(p, NewerThanCutoff)]_vars

\* C4 witness: a call was suppressed while the limit's worth of timestamps remain.
C4_Witness ==
    \E p \in Procs :
        /\ outcome[p] = "suppressed"
        /\ alerts_suppressed >= 1
        /\ Len(recent_alerts) >= max_alerts_per_window
        /\ Len(log) >= 1

\* C5: alerts_sent is the number of send_alert calls that returned True, and
\* each of them appended one timestamp.
C5_SentCountsTrueReturns ==
    alerts_sent = Len(log)

\* ------------------------------------------------- analyze_and_alert: claims
\* A call of analyze_and_alert that changed something.
AnalyzeStep == pc[Caller] = "idle" /\ <<analysis, calls, pc>>' # <<analysis, calls, pc>>

\* The labels of a high or critical risk level, in either case.
HighOrCritical == {"high", "critical", "HIGH", "CRITICAL"}

\* C6: when the fraud result is suspicious, analyze_and_alert creates an alert,
\* of type COMBINED if there are brand matches and FRAUD_ONLY if there are none;
\* when the fraud result is not suspicious and no brand match has a high or
\* critical risk level, it creates no alert, sends nothing, and leaves the
\* rate-limiter state and the counters unchanged.
C6_AlertDecision ==
    [][AnalyzeStep =>
        LET a == analysis' IN
        /\ a.fraud_result.is_suspicious =>
             /\ Len(a.alerts) = 1
             /\ a.alerts[1].alert_type =
                  IF a.brand_matches # <<>> THEN "COMBINED" ELSE "FRAUD_ONLY"
        /\ ( /\ ~a.fraud_result.is_suspicious
             /\ \A i \in 1..Len(a.brand_matches) :
                  a.brand_matches[i].risk_level \notin HighOrCritical ) =>
             /\ a.alerts = <<>>
             /\ UNCHANGED <<recent_alerts, alerts_sent, alerts_suppressed, deliveries,
                            log, pc, outcome, calls>>]_vars

\* C6 witness: a suspicious text with a brand in it was analyzed and a COMBINED
\* alert was created.
C6_Witness ==
    /\ analysis.state = "analyzed"
    /\ analysis.fraud_result.is_suspicious
    /\ analysis.brand_matches # <<>>
    /\ Len(analysis.alerts) = 1
    /\ analysis.alerts[1].alert_type = "COMBINED"

\* C7: for a text with a configured brand pattern and no fraud keyword, when the
\* brand detector labels a match HIGH and the fraud result is not suspicious,
\* analyze_and_alert raises an alert of type BRAND_ONLY.
C7_BrandOnlyAlertRaised ==
    ( /\ analysis.state = "analyzed"
      /\ analysis.fraud_result.detected_keywords = <<>>
      /\ ~analysis.fraud_result.is_suspicious
      /\ \E i \in 1..Len(analysis.brand_matches) :
           analysis.brand_matches[i].risk_level = "HIGH" ) =>
        /\ Len(analysis.alerts) = 1
        /\ analysis.alerts[1].alert_type = "BRAND_ONLY"

\* The number the combination rule maps a risk level to, whatever the case the
\* brand detector writes the level in.
StatedRiskWeight(risk_level) ==
    CASE risk_level \in {"low", "LOW"}           -> Tenths(2)
      [] risk_level \in {"medium", "MEDIUM"}     -> Tenths(5)
      [] risk_level \in {"high", "HIGH"}         -> Tenths(8)
      [] risk_level \in {"critical", "CRITICAL"} -> Tenths(10)
      [] OTHER                                   -> 0

StatedBrandScore(brand_matches) ==
    MaxOf([i \in 1..Len(brand_matches) |-> StatedRiskWeight(brand_matches[i].risk_level)])

StatedRiskScore(fraud_score, brand_score) ==
    IF fraud_score > 0 /\ brand_score > 0
    THEN Min2(One, (fraud_score * 7) \div 10 + (brand_score * 5) \div 10)
    ELSE IF fraud_score > 0 THEN fraud_score
    ELSE IF brand_score > 0 THEN brand_score
    ELSE 0

\* C8: the combined risk score of a fraud result and the brand matches that
\* detect_brands produced is min(1.0, 0.7*fraud_score + 0.5*brand_score) when both
\* scores are positive, the positive one when only one is, and 0.0 otherwise,
\* brand_score being the largest number mapped from a match's risk level
\* (low 0.2, medium 0.5, high 0.8, critical 1.0).
C8_CombinedRiskScore ==
    analysis.state = "analyzed" =>
        analysis.risk_score =
            StatedRiskScore(analysis.fraud_result.fraud_score,
                            StatedBrandScore(analysis.brand_matches))

\* C9: the risk_score of every Alert that analyze_and_alert creates is the
\* combined risk score computed for the same fraud result and brand matches.
C9_AlertCarriesCombinedScore ==
    analysis.state = "analyzed" =>
        \A i \in 1..Len(analysis.alerts) :
            analysis.alerts[i].risk_score = analysis.risk_score

\* ---------------------------------------------------- score calculator: claims
\* C10: for every list of matched keywords with scores in [0,1] and every
\* combination of contextual signals, the final score that
\* calculate_advanced_score returns lies in [0,1].
C10_FinalScoreInUnitInterval ==
    calc.state = "returned" =>
        /\ 0 <= calc.score_breakdown.final_score
        /\ calc.score_breakdown.final_score <= One

\* C10 witness: a score was calculated whose sum of contextual score and category
\* bonus exceeds 1.0 and was capped.
C10_Witness ==
    /\ calc.state = "returned"
    /\ calc.score_breakdown.contextual_score + calc.score_breakdown.category_bonus > One
    /\ calc.score_breakdown.final_score = One

\* The scores of a keyword list, in the order of the list.
ScoresOf(detected_keywords) ==
    [i \in DOMAIN detected_keywords |-> detected_keywords[i].score]

\* s[0] + sum over i >= 1 of s[i] * (1/(i+1)) * 0.3 for the scores taken in
\* descending order: the largest remaining score is taken as s[i].
RECURSIVE DescendingSum(_, _, _)
DescendingSum(scores, remaining, i) ==
    IF remaining = {} THEN 0
    ELSE LET k == CHOOSE k \in remaining : \A j \in remaining : scores[k] >= scores[j]
         IN (IF i = 0 THEN scores[k] ELSE (scores[k] * 3) \div (10 * (i + 1)))
            + DescendingSum(scores, remaining \ {k}, i + 1)

StatedBaseScore(scores) ==
    IF Len(scores) = 0 THEN 0
    ELSE IF Len(scores) = 1 THEN scores[1]
    ELSE Min2(One, DescendingSum(scores, DOMAIN scores, 0))

\* The keywords with scores 0.9, 0.8, 0.7, in an order of detection.
NineEightSeven ==
    << [category |-> "scam", score |-> Tenths(8)],
       [category |-> "scam", score |-> Tenths(9)],
       [category |-> "scam", score |-> Tenths(7)] >>

\* Every other order of detection of a list is reached from it by exchanging the
\* first two keywords and by moving the first keyword to the end, repeatedly.
SwapFirstTwo(seq) ==
    IF Len(seq) < 2 THEN seq ELSE <<seq[2], seq[1]>> \o SubSeq(seq, 3, Len(seq))

Rotate(seq) == IF seq = <<>> THEN seq ELSE Append(Tail(seq), Head(seq))

\* C11: calculate_base_score returns 0.0 for no keyword, the score for one
\* keyword, and otherwise min(1.0, s[0] + sum over i >= 1 of s[i]*(1/(i+1))*0.3)
\* for the scores in descending order; the scores 0.9, 0.8, 0.7 give
\* 0.9 + 0.12 + 0.07 clamped to 1.0; the result is the same for every order in
\* which the keywords were detected.
C11_BaseScore ==
    calc.state = "returned" =>
        LET detected_keywords == calc.detected_keywords IN
        /\ calc.score_breakdown.base_score = StatedBaseScore(ScoresOf(detected_keywords))
        /\ CalculateBaseScore(SwapFirstTwo(detected_keywords))
             = calc.score_breakdown.base_score
        /\ CalculateBaseScore(Rotate(detected_keywords))
             = calc.score_breakdown.base_score
        /\ DescendingSum(ScoresOf(NineEightSeven), DOMAIN NineEightSeven, 0)
             = Tenths(9) + Hundredths(12) + Hundredths(7)
        /\ CalculateBaseScore(NineEightSeven) = One

\* C11 witness: a base score below the clamp was calculated for three or more
\* keywords that were not detected in descending order of score.
C11_Witness ==
    /\ calc.state = "returned"
    /\ Len(calc.detected_keywords) >= 3
    /\ calc.detected_keywords[1].score < calc.detected_keywords[2].score
    /\ calc.detected_keywords[3].score > 0
    /\ calc.score_breakdown.base_score < One

\* ---------------------------------------------------------- risk levels: claims
StatedRiskLevel(score) ==
    IF score >= Hundredths(90) THEN "CRITICAL"
    ELSE IF score >= Hundredths(75) THEN "HIGH"
    ELSE IF score >= Hundredths(50) THEN "MEDIUM"
    ELSE IF score >= Hundredths(25) THEN "LOW"
    ELSE "MINIMAL"

\* C12: for every score s in [0,1], get_risk_level(s) and the risk_level of a
\* DetectionResult with fraud_score s are both CRITICAL iff s >= 0.9, HIGH iff
\* 0.75 <= s < 0.9, MEDIUM iff 0.5 <= s < 0.75, LOW iff 0.25 <= s < 0.5 and
\* MINIMAL iff s < 0.25.
C12_RiskLevelBoundaries ==
    detection.state = "result" =>
        /\ detection.risk_level # "none" =>
             detection.risk_level = StatedRiskLevel(detection.fraud_score)
        /\ detection.config_risk_level # "none" =>
             detection.config_risk_level = StatedRiskLevel(detection.fraud_score)

\* --------------------------------------------------------- detect_fraud: claims
\* The inputs that are empty, whitespace-only, or not a string.
EmptyOrNotAString(text) == text.type # "str" \/ text.words = <<>>

\* C13: detect_fraud called with an input that is empty, whitespace-only or not
\* a string returns the zero result (not suspicious, fraud_score 0.0, no matched
\* keywords) without raising and without reading the keyword store.
C13_ZeroResultForNoText ==
    (detection.state \in {"returned", "raised"} /\ EmptyOrNotAString(detection.text)) =>
        /\ detection.state = "returned"
        /\ ~detection.result.is_suspicious
        /\ detection.result.fraud_score = 0
        /\ detection.result.detected_keywords = <<>>
        /\ ~detection.store_read

\* C20: for the text "URGENT: send bitcoin now for guaranteed profit!!" with the
\* default keywords and thresholds, detect_fraud returns is_suspicious = true, a
\* fraud_score above 0.7, matched keywords that include the bitcoin keyword and
\* "guaranteed profit", and the text has an urgency signal that raises the
\* contextual multiplier above 1.0.
C20_UrgentBitcoinScenario ==
    ( /\ detection.state \in {"returned", "raised"}
      /\ detection.text.type = "str"
      /\ detection.text.words = ScenarioText ) =>
        /\ detection.state = "returned"
        /\ detection.result.is_suspicious
        /\ detection.result.fraud_score > Tenths(7)
        /\ \E i \in DOMAIN detection.result.detected_keywords :
             "bitcoin" \in Range(KeywordWords(detection.result.detected_keywords[i]))
        /\ "guaranteed profit" \in Range(detection.result.detected_keywords)
        /\ AnalyzeContext(ScenarioText).urgency_indicators > 0
        /\ CalculateContextualMultiplier(AnalyzeContext(ScenarioText)) > 20

\* -------------------------------------------------------- KeywordManager: claims
\* The score is outside [0,1].
OutOfRange(score) == score < 0 \/ score > One

\* The record add_keyword makes of its arguments.
AddedRecord(keyword, score) ==
    [keyword |-> Normalize(keyword), category |-> ArgCategory, score |-> score,
     description |-> ArgDescription]

\* What add_keyword does given when it rejects: False and the store as it was,
\* or True and the store with exactly the one record more.
AddKeywordOutcome(rejected) ==
    IF rejected
    THEN ~last.returned /\ keywords = last.before
    ELSE /\ last.returned
         /\ Len(keywords) = Len(last.before) + 1
         /\ AllKeywords(keywords)
              = AllKeywords(last.before) \cup {AddedRecord(last.keyword, last.score)}
         /\ AddedRecord(last.keyword, last.score) \notin AllKeywords(last.before)

\* C14 as stated: add_keyword returns False and leaves the store unchanged when
\* the normalized keyword is already present or the score is outside [0,1];
\* otherwise it returns True and the store gains exactly that one record.
C14_AddAsStated ==
    last.op = "add_keyword" =>
        AddKeywordOutcome(\/ Normalize(last.keyword) \in Keys(last.before)
                          \/ OutOfRange(last.score))

\* C14: add_keyword returns False and leaves the store unchanged when the
\* normalized keyword is already present, or is empty, or the score is outside
\* [0,1]; otherwise it returns True and the store gains exactly that one record.
C14_AddKeyword ==
    last.op = "add_keyword" =>
        AddKeywordOutcome(\/ Normalize(last.keyword) \in Keys(last.before)
                          \/ Normalize(last.keyword) = ""
                          \/ OutOfRange(last.score))

\* C14 witness: a keyword given with spaces and a capital was added, to a store
\* that no longer had it.
C14_Witness ==
    /\ last.op = "add_keyword"
    /\ last.returned
    /\ last.keyword # Normalize(last.keyword)
    /\ Normalize(last.keyword) \in Keys(keywords) \ Keys(last.before)

\* Every record of the store has a score in [0,1] and a non-empty, trimmed,
\* lowercased keyword, and is stored under the key equal to its keyword.
WellFormed(store) ==
    \A i \in DOMAIN store :
        /\ 0 <= store[i].value.score /\ store[i].value.score <= One
        /\ store[i].value.keyword # ""
        /\ Normalize(store[i].value.keyword) = store[i].value.keyword
        /\ store[i].key = store[i].value.keyword
        /\ \A j \in DOMAIN store : store[j].key = store[i].key => j = i

\* C15: after any sequence of add_keyword, remove_keyword, update_keyword_score
\* and import_from_json calls on a new KeywordManager, every stored record has a
\* score in [0,1] and a non-empty, trimmed, lowercased keyword, and is stored
\* under the key equal to its keyword.
C15_StoreWellFormed == WellFormed(keywords) /\ WellFormed(target.keywords)

\* C15 witness: the score of a keyword was updated in a store that had gained a
\* record.
C15_Witness ==
    /\ last.op = "update_keyword_score"
    /\ last.returned
    /\ Len(keywords) > Len(LoadDefaultKeywords)

\* C16 as stated: for every store and every keyword k, add_keyword(k, ...)
\* followed by remove_keyword(k) leaves get_all_keywords() equal, as a set, to
\* what it was before the two calls.
C16_AddThenRemoveAsStated ==
    (last.op = "remove_keyword" /\ last.after_add) =>
        AllKeywords(keywords) = AllKeywords(last.before_add)

\* C16: for every store and every keyword k whose normalized form is not in the
\* store, add_keyword(k, ...) followed by remove_keyword(k) leaves
\* get_all_keywords() equal, as a set, to what it was before the two calls.
C16_AddThenRemove ==
    ( /\ last.op = "remove_keyword"
      /\ last.after_add
      /\ Normalize(last.keyword) \notin Keys(last.before_add) ) =>
        AllKeywords(keywords) = AllKeywords(last.before_add)

\* C16 witness: a keyword that was not in the store was added and then removed.
C16_Witness ==
    /\ last.op = "remove_keyword"
    /\ last.after_add
    /\ last.returned
    /\ Normalize(last.keyword) \notin Keys(last.before_add)

\* The records of an exported file, as FraudKeyword records.
FileKeywords(file) ==
    { [keyword |-> file.keywords[i].keyword.str,
       category |-> file.keywords[i].category.str,
       score |-> file.keywords[i].score.num,
       description |-> file.keywords[i].description.str] : i \in DOMAIN file.keywords }

\* C17: export_to_json on a store followed by import_from_json of that file into
\* a newly constructed KeywordManager leaves the target's get_all_keywords()
\* equal, as a set, to the exported store's.
C17_ExportImportRoundTrip ==
    target.constructed => AllKeywords(target.keywords) = FileKeywords(target.file)

\* The record is valid: a known category, a non-empty string keyword and a
\* numeric score in [0,1].
ValidRecord(kw_data) ==
    /\ kw_data.category.type = "str" /\ kw_data.category.str \in FraudCategories
    /\ kw_data.keyword.type = "str" /\ Normalize(kw_data.keyword.str) # ""
    /\ kw_data.score.type = "number" /\ ~OutOfRange(kw_data.score.num)

\* C18: import_from_json does not abort on a record that is invalid (a missing
\* field, an unknown category, a score out of range, a score or keyword of the
\* wrong type, an empty keyword): whatever the place of the invalid record,
\* every valid record of the file is in the store after the call, and the call
\* reports success.
C18_ImportSkipsInvalidRecords ==
    (last.op = "import_from_json" /\ last.file.exists) =>
        /\ last.returned
        /\ \A i \in DOMAIN last.file.keywords :
             ValidRecord(last.file.keywords[i]) =>
                Normalize(last.file.keywords[i].keyword.str) \in Keys(keywords)

\* The value import_from_json returns, as the integer Python compares it to.
ReturnedAsInt(returned) == IF returned THEN 1 ELSE 0

\* C19: import_from_json returns the number of records it imported.
C19_ImportReturnsCount ==
    (last.op = "import_from_json" /\ last.file.exists) =>
        ReturnedAsInt(last.returned) = last.imported_count

\* ---------------------------------------------- _deduplicate_matches: claims
\* Two matches overlap: the distance between their positions is smaller than
\* the larger of their matched-text lengths.
Overlap(a, b) ==
    Abs(a.position - b.position) < Max2(Len(a.matched_text), Len(b.matched_text))

\* C21: the list returned by _deduplicate_matches contains no two overlapping
\* matches, and every dropped candidate overlaps a surviving match whose
\* confidence is at least its own.
C21_NoOverlapAmongSurvivors ==
    dedup.state = "returned" =>
        LET survivors == dedup.filtered_matches IN
        /\ \A i, j \in DOMAIN survivors : i # j => ~Overlap(survivors[i], survivors[j])
        /\ \A k \in DOMAIN dedup.matches :
             dedup.matches[k] \notin Range(survivors) =>
                \E i \in DOMAIN survivors :
                    /\ Overlap(dedup.matches[k], survivors[i])
                    /\ survivors[i].confidence >= dedup.matches[k].confidence

\* ------------------------------------------------------ _detect_keywords: claims
\* The matching rule: the keyword is one of the phrases, or it has more than one
\* word and every one of its words is one of the phrases.
StatedMatch(keyword, phrases) ==
    \/ KeywordWords(keyword) \in phrases
    \/ /\ Len(KeywordWords(keyword)) > 1
       /\ \A i \in DOMAIN KeywordWords(keyword) : <<KeywordWords(keyword)[i]>> \in phrases

\* C22: _detect_keywords returns a stored keyword exactly when it is an element
\* of the phrase set, or it has more than one word and every one of its words is
\* an element of the phrase set; each stored keyword is returned at most once
\* and no keyword failing both conditions is returned.
C22_MatchingRule ==
    (detection.state = "returned" /\ detection.store_read) =>
        LET phrases == ExtractPhrases(detection.text.words)
            returned == detection.result.detected_keywords
        IN /\ \A k \in DOMAIN keywords :
                (keywords[k].key \in Range(returned)) <=> StatedMatch(keywords[k].key, phrases)
           /\ Range(returned) \subseteq Keys(keywords)
           /\ \A i, j \in DOMAIN returned : returned[i] = returned[j] => i = j

\* C22 witness: a keyword of two words was returned for a text that has its
\* words but not the keyword itself, next to a text that has neither.
C22_Witness ==
    /\ detection.state = "returned"
    /\ detection.store_read
    /\ \E i \in DOMAIN detection.result.detected_keywords :
         KeywordWords(detection.result.detected_keywords[i])
           \notin ExtractPhrases(detection.text.words)
    /\ "guaranteed profit" \notin Range(detection.result.detected_keywords)

\* ------------------------------------------- contextual multiplier: claims
\* min(2.0, 1.0 + min(0.15*u, 0.30) + min(0.10*f, 0.25) + min(0.10*c, 0.20) + L + M)
\* in twentieths, for the length boost L given.
StatedMultiplier(factors, length_boost) ==
    Min2(40, 20 + Min2(3 * factors.urgency_indicators, 6)
                + Min2(2 * factors.financial_terms, 5)
                + Min2(2 * factors.contact_requests, 4)
                + length_boost
                + (IF factors.has_media THEN 2 ELSE 0))

\* C23 as stated: the multiplier is the stated sum with L = 0.10 when the
\* message length is below 20, 0.05 when it is above 500 and 0 otherwise, and
\* lies in [1.0, 2.0].
C23_MultiplierAsStated ==
    calc.state = "returned" =>
        /\ calc.score_breakdown.contextual_multiplier
             = StatedMultiplier(calc.factors,
                                IF calc.factors.message_length < 20 THEN 2
                                ELSE IF calc.factors.message_length > 500 THEN 1 ELSE 0)
        /\ 20 <= calc.score_breakdown.contextual_multiplier
        /\ calc.score_breakdown.contextual_multiplier <= 40

\* C23: the multiplier is the stated sum with L = 0.10 when the message length
\* is from 1 to 19, 0.05 when it is above 500 and 0 otherwise (a length of 0
\* included), and lies in [1.0, 2.0].
C23_ContextualMultiplier ==
    calc.state = "returned" =>
        /\ calc.score_breakdown.contextual_multiplier
             = StatedMultiplier(calc.factors,
                                IF /\ 0 < calc.factors.message_length
                                   /\ calc.factors.message_length < 20 THEN 2
                                ELSE IF calc.factors.message_length > 500 THEN 1 ELSE 0)
        /\ 20 <= calc.score_breakdown.contextual_multiplier
        /\ calc.score_breakdown.contextual_multiplier <= 40

\* C23 witness: a multiplier was calculated for a message of 19 characters with
\* media and with all three boosts at their caps.
C23_Witness ==
    /\ calc.state = "returned"
    /\ calc.factors.message_length = 19
    /\ calc.factors.has_media
    /\ calc.factors.urgency_indicators * 3 > 6
    /\ calc.factors.financial_terms * 2 > 5
    /\ calc.factors.contact_requests * 2 > 4
    /\ calc.score_breakdown.contextual_multiplier = 39

\* ------------------------------------------------------------ severity: claims
\* The severity mapping: CRITICAL when brand matches exist and the score is above
\* 0.7; otherwise HIGH above 0.8, MEDIUM above 0.6, LOW in all other cases.
StatedSeverity(score, brands_exist) ==
    CASE brands_exist /\ score > Tenths(7) -> "CRITICAL"
      [] ~(brands_exist /\ score > Tenths(7)) /\ score > Tenths(8) -> "HIGH"
      [] ~(brands_exist /\ score > Tenths(7)) /\ score <= Tenths(8) /\ score > Tenths(6)
           -> "MEDIUM"
      [] OTHER -> "LOW"

\* C24: the severity of every alert created by analyze_and_alert follows the
\* combined risk score: CRITICAL when brand matches exist and the score is
\* > 0.7; otherwise HIGH when the score is > 0.8, MEDIUM when it is > 0.6, and
\* LOW in all other cases; _determine_severity is that mapping on every score.
C24_SeverityFollowsRiskScore ==
    /\ analysis.state = "analyzed" =>
          \A i \in DOMAIN analysis.alerts :
              analysis.alerts[i].severity
                = StatedSeverity(analysis.risk_score, analysis.brand_matches # <<>>)
    /\ \A score \in Scores, has_brands \in BOOLEAN :
          DetermineSeverity(score, has_brands) = StatedSeverity(score, has_brands)

\* C24 witness: an alert was created for a suspicious text with a brand match,
\* with a combined risk score above 0.7.
C24_Witness ==
    /\ analysis.state = "analyzed"
    /\ analysis.alerts # <<>>
    /\ analysis.brand_matches # <<>>
    /\ analysis.risk_score > Tenths(7)
    /\ analysis.alerts[1].severity = "CRITICAL"

\* ----------------------------------------------- update_configuration: claims
\* The call that names none of the three options.
NoOptions == [name \in {} |-> 0]

\* C25: after any sequence of update_configuration calls with arbitrary numeric
\* arguments, interleaved with send_alert calls, max_alerts_per_window is >= 1,
\* rate_limit_window is >= 1 minute and min_alert_score is in [0,1]; a call that
\* names none of the three options changes none of them.
C25_ConfigurationValidated ==
    /\ [](/\ max_alerts_per_window >= 1
          /\ rate_limit_window >= 1
          /\ 0 <= min_alert_score /\ min_alert_score <= One)
    /\ [][UpdateConfiguration(NoOptions) =>
            UNCHANGED <<max_alerts_per_window, rate_limit_window, min_alert_score>>]_vars

\* C25 witness: all three options were set to values out of range after a
\* send_alert call, and each was brought to the nearest valid value.
C25_Witness ==
    /\ reconfigured
    /\ NCalls > 0
    /\ max_alerts_per_window = 1
    /\ rate_limit_window = 1
    /\ min_alert_score = One

\* ------------------------------------------------------------ clean_text: claims
\* C26: the string clean_text returns is lowercase, contains only word
\* characters, single spaces and the punctuation . , ! ? -, has no leading or
\* trailing whitespace and no run of two or more whitespace characters;
\* normalizing it again returns it unchanged.
C26_CleanTextNormalForm ==
    cleaning.state = "returned" =>
        LET cleaned == cleaning.cleaned IN
        /\ \A i \in DOMAIN cleaned : cleaned[i] \in {"a", "!", " "}
        /\ cleaned # <<>> => ~IsSpace(cleaned[1]) /\ ~IsSpace(cleaned[Len(cleaned)])
        /\ \A i \in 1..(Len(cleaned) - 1) : ~(IsSpace(cleaned[i]) /\ IsSpace(cleaned[i + 1]))
        /\ CleanText(cleaned) = cleaned

\* ------------------------------------------------ no keyword, no score: claims
\* C27: a detection in which no keyword matches has fraud_score = 0.0 and
\* is_suspicious = false, whatever the contextual signals are: for no keyword
\* calculate_advanced_score gives 0.0 for every number of urgency, financial
\* and contact matches, every length, and media present or not.
C27_NoKeywordNoScore ==
    /\ (detection.state = "returned" /\ detection.result.detected_keywords = <<>>) =>
          /\ detection.result.fraud_score = 0
          /\ ~detection.result.is_suspicious
    /\ \A factors \in FactorSamples :
          /\ CalculateAdvancedScore(<<>>, factors).final_score = 0
          /\ ~IsSuspicious(CalculateAdvancedScore(<<>>, factors).final_score)

\* C27 witness: detect_fraud read the store for a short text with an urgency
\* and a financial match, and no keyword matched.
C27_Witness ==
    /\ detection.state = "returned"
    /\ detection.store_read
    /\ detection.result.detected_keywords = <<>>
    /\ AnalyzeContext(detection.text.words).urgency_indicators > 0
    /\ AnalyzeContext(detection.text.words).financial_terms > 0
    /\ CalculateContextualMultiplier(AnalyzeContext(detection.text.words)) > 20

\* ------------------------------------------------------------ ocr_text: claims
\* What analyze_and_alert decides for a context: the fraud result, whether an
\* alert is raised, and the alert's type and severity.
DecisionFor(context) ==
    LET fraud_result == DetectFraud(FraudText(context))
        brand_matches == DetectBrands(CombinedText(context))
        risk_score == CalculateRiskScore(fraud_result, brand_matches)
        should_alert == ShouldAlert(fraud_result, brand_matches)
    IN [fraud_result |-> fraud_result,
        should_alert |-> should_alert,
        alert_type |-> IF should_alert THEN AlertTypeOf(fraud_result, brand_matches)
                       ELSE "none",
        severity |-> IF should_alert THEN SeverityOf(fraud_result, brand_matches, risk_score)
                     ELSE "none"]

\* What the last analyze_and_alert call decided.
DecisionTaken ==
    [fraud_result |-> analysis.fraud_result,
     should_alert |-> analysis.alerts # <<>>,
     alert_type |-> IF analysis.alerts # <<>> THEN analysis.alerts[1].alert_type ELSE "none",
     severity |-> IF analysis.alerts # <<>> THEN analysis.alerts[1].severity ELSE "none"]

\* The text contains a configured brand pattern.
HasBrandPattern(words) == DetectBrands([words |-> words, lead |-> 0]) # <<>>

\* The context of the last call with another ocr_text.
WithOcrText(ocr_text) == [analysis.context EXCEPT !.ocr_text = ocr_text]

PassesCheck(p) == calls'[p] = calls[p] + 1 /\ outcome'[p] # "suppressed"

\* The chat deliveries made so far, over the bot and over the client.
ChatDeliveries(d) == d["bot"] + d["client"]

\* C29: a send_alert call that passes the rate-limit check delivers the message
\* over at most one chat transport: the bot transport comes first and only when
\* it is available; telegram_client.send_message is called if and only if the
\* bot transport was unavailable or did not succeed; a call that returns True
\* delivered over exactly one of the two.
C29_OneChatTransport ==
    [][ /\ \A p \in Procs :
            /\ PassesCheck(p) =>
                 IF deliveries'["bot"] # deliveries["bot"]
                 THEN /\ deployment.bot_available
                      /\ deliveries'["bot"] = deliveries["bot"] + 1
                      /\ deliveries'["client"] = deliveries["client"]
                      /\ pc'[p] = "idle"
                      /\ outcome'[p] = "sent"
                 ELSE /\ pc'[p] = "send_message"
                      /\ deliveries'["client"] = deliveries["client"]
            /\ (pc[p] # "send_message" /\ pc'[p] = "send_message") => PassesCheck(p)
            /\ (pc[p] = "send_message" /\ pc'[p] # "send_message") =>
                 /\ deliveries'["bot"] = deliveries["bot"]
                 /\ deliveries'["client"] =
                      deliveries["client"] + (IF outcome'[p] = "sent" THEN 1 ELSE 0)
        /\ ChatDeliveries(deliveries') - ChatDeliveries(deliveries)
             = (IF alerts_sent' # alerts_sent THEN 1 ELSE 0) ]_vars

\* C29 witness: with the bot transport available, one call was delivered by the
\* bot and another, for which the bot did not succeed, by the client.
C29_Witness ==
    /\ deployment.bot_available
    /\ deliveries["bot"] > 0
    /\ deliveries["client"] > 0

\* ---------------------------------------- analyze_and_alert: claims on its return
\* C30: analyze_and_alert never raises; it returns an Alert only when an alert
\* was warranted and send_alert returned True for it, and None when no alert is
\* warranted, when the rate limiter suppressed the alert, when the delivery
\* failed and when a step raised.
C30_ReturnsAlertOnlyWhenSent ==
    analysis.state = "analyzed" =>
        /\ analysis.returned \in {"pending", "None", "Alert"}
        /\ analysis.returned = "pending" <=> pc[Caller] # "idle"
        /\ analysis.returned = "Alert" =>
              /\ analysis.alerts # <<>>
              /\ ~analysis.raised
              /\ outcome[Caller] = "sent"
        /\ analysis.alerts = <<>> => analysis.returned = "None"
        /\ analysis.raised => analysis.returned = "None"
        /\ (pc[Caller] = "idle" /\ analysis.alerts # <<>> /\ ~analysis.raised) =>
              /\ outcome[Caller] \in {"sent", "suppressed", "failed"}
              /\ outcome[Caller] \in {"suppressed", "failed"} => analysis.returned = "None"

\* C30 witness: a call whose alert the rate limiter suppressed has returned None
\* after earlier alerts were delivered.
C30_Witness ==
    /\ analysis.state = "analyzed"
    /\ analysis.alerts # <<>>
    /\ outcome[Caller] = "suppressed"
    /\ analysis.returned = "None"
    /\ alerts_sent > 0

====
